---- MODULE Spec2Model ----
(***************************************************************************)
(* TrustArc AI escrow: the TrustArcEscrow contract, the agent's            *)
(* verify-and-release flows, the rule-based scoring of ai.js and the fee   *)
(* calculation, as state machines.                                         *)
(***************************************************************************)
EXTENDS Integers, Sequences, FiniteSets, TLC

(***************************************************************************)
(* JavaScript numbers.  A number is an IEEE-754 binary64 value; the ones   *)
(* that occur here are written [k, e] and stand for                        *)
(*        (k * 2^SCALE + e) / (100 * 2^SCALE)                              *)
(* that is k hundredths plus a residue e counted in units of               *)
(* 2^-SCALE / 100.  A value of binary exponent j has its last mantissa bit *)
(* at 2^(j-52), which is 100 * 2^(j - 52 + SCALE) residue units.           *)
(* Every arithmetic result is the exact result rounded to the nearest      *)
(* representable value, ties to the even mantissa.                         *)
(***************************************************************************)
SCALE == 59
\* the largest binary exponent of a number of the model (numbers stay below 2^(MaxExp+1))
MaxExp == 12
\* the smallest binary exponent whose last mantissa bit is a whole residue unit
MinExp == 52 - SCALE

Pow2(n) == 2 ^ n

\* |x| >= 2^j for the number of k >= 1 hundredths and residue e (|e| far below 2^SCALE)
GE2(k, e, j) ==
    IF j >= 0 THEN k > 100 * Pow2(j) \/ (k = 100 * Pow2(j) /\ e >= 0)
              ELSE k * Pow2(-j) > 100 \/ (k * Pow2(-j) = 100 /\ e >= 0)

\* the largest j in lo..hi with |x| >= 2^j, by bisection; |x| >= 2^lo is given
RECURSIVE LargestExp(_, _, _, _)
LargestExp(k, e, lo, hi) ==
    IF lo = hi THEN lo
    ELSE LET mid == (lo + hi + 1) \div 2
         IN  IF GE2(k, e, mid) THEN LargestExp(k, e, mid, hi)
             ELSE LargestExp(k, e, lo, mid - 1)

\* the binary exponent floor(log2 |x|) of a number with k >= 1
Exponent(k, e) == LargestExp(k, e, MinExp, MaxExp)

\* 2^n modulo 25, by repeated squaring
RECURSIVE Pow2Mod25(_)
Pow2Mod25(n) ==
    IF n = 0 THEN 1
    ELSE IF n % 2 = 0 THEN (Pow2Mod25(n \div 2) * Pow2Mod25(n \div 2)) % 25
    ELSE (2 * Pow2Mod25(n - 1)) % 25

Pow2Mod25Table == [n \in 0..SCALE |-> Pow2Mod25(n)]

\* (k * 2^SCALE + e) modulo 25 * 2^t, for 0 <= t <= SCALE: 2^t divides k * 2^SCALE
Residue(k, e, t) ==
    LET m == 25 * Pow2(t)
        hi == ((k % 25) * Pow2Mod25Table[SCALE - t]) % 25
    IN  (Pow2(t) * hi + (e % m)) % m

\* round-to-nearest, ties-to-even, of the non-negative exact value [k, e]: a number
\* of exponent j is a multiple of 2^(j-52), which is 25 * 2^(j - 50 + SCALE) units
RoundBy(k, e, m, r, odd) ==
    IF r = 0 THEN [k |-> k, e |-> e]
    ELSE IF 2 * r < m \/ (2 * r = m /\ ~odd) THEN [k |-> k, e |-> e - r]
    ELSE [k |-> k, e |-> e - r + m]

RoundAt(k, e, t) ==
    RoundBy(k, e, 25 * Pow2(t), Residue(k, e, t), Residue(k, e, t + 1) >= 25 * Pow2(t))

RoundAbs(k, e) ==
    IF k = 0 THEN [k |-> 0, e |-> e]
    ELSE RoundAt(k, e, Exponent(k, e) - 50 + SCALE)

Neg(x) == [k |-> -x.k, e |-> -x.e]
IsNeg(x) == x.k < 0 \/ (x.k = 0 /\ x.e < 0)

\* the binary64 value nearest to the exact value x
RoundDouble(x) == IF IsNeg(x) THEN Neg(RoundAbs(-x.k, -x.e)) ELSE RoundAbs(x.k, x.e)

\* the binary64 values of the decimal literals 0.00, 0.01, ... 1.00
Hundredths == [c \in 0..100 |-> RoundDouble([k |-> c, e |-> 0])]

\* a decimal literal of c hundredths, e.g. Lit(70) is the number written 0.7
Lit(c) == IF c \in DOMAIN Hundredths THEN Hundredths[c] ELSE RoundDouble([k |-> c, e |-> 0])

FAdd(x, y) == RoundDouble([k |-> x.k + y.k, e |-> x.e + y.e])
FSub(x, y) == RoundDouble([k |-> x.k - y.k, e |-> x.e - y.e])
\* the product of the integer n and the number x
FMulInt(n, x) == RoundDouble([k |-> n * x.k, e |-> n * x.e])
FGeq(x, y) == x.k > y.k \/ (x.k = y.k /\ x.e >= y.e)
FLt(x, y) == ~FGeq(x, y)
FMin(x, y) == IF FLt(y, x) THEN y ELSE x
FMax(x, y) == IF FLt(x, y) THEN y ELSE x

\* Math.round of a non-negative number: the nearest integer, halves upwards
MathRound(x) ==
    LET t == x.k + 50
    IN  IF t % 100 = 0 /\ x.e < 0 THEN (t \div 100) - 1 ELSE t \div 100

\* Math.round(x * 100) / 100
RoundTo2(x) == Lit(MathRound(FMulInt(100, x)))


(***************************************************************************)
(* ai.js: fee breakdown, file classification and the scoring rules.        *)
(* A description is modelled by the set of rule keywords its lower-cased   *)
(* text includes, a file content by the set of markers it includes and its *)
(* length.                                                                 *)
(***************************************************************************)
Keywords == {"video", "website", "webpage", "html", "image", "document", "code",
             "responsive", "javascript", "form", "contact", "navigation"}

StructureTags == {"<!DOCTYPE", "<html", "<head", "<body", "<title"}

Markers == StructureTags \cup
           {"viewport", "responsive", "@media", "mobile", "script", "<form",
            "<div", "<span", "<p", "function", "=>", "contact", "email", "phone",
            "nav", "menu", "href", "</html>", "</body>", "<!--", "-->"}

\* the number n as a JavaScript number
Num(n) == [k |-> 100 * n, e |-> 0]

CLIENT_FEE == Lit(1)
FREELANCER_FEE == Lit(1)

NoFees == [none |-> TRUE]

\* a fee breakdown that adds the freelancer's fee to what the freelancer receives
calculateFeeBreakdownAdding(amount) ==
    IF amount = 0 \/ amount <= 0 THEN NoFees
    ELSE [none |-> FALSE,
          clientFee |-> FMulInt(amount, CLIENT_FEE),
          freelancerFee |-> FMulInt(amount, FREELANCER_FEE),
          totalFees |-> FAdd(FMulInt(amount, CLIENT_FEE), FMulInt(amount, FREELANCER_FEE)),
          freelancerReceives |-> FAdd(Num(amount), FMulInt(amount, FREELANCER_FEE)),
          clientPays |-> FAdd(Num(amount), FMulInt(amount, CLIENT_FEE)),
          rawAmount |-> Num(amount)]

calculateFeeBreakdown(amount) ==
    IF amount = 0 \/ amount <= 0 THEN NoFees
    ELSE LET clientFee == FMulInt(amount, CLIENT_FEE)
             freelancerFee == FMulInt(amount, FREELANCER_FEE)
         IN  [none |-> FALSE,
              clientFee |-> clientFee,
              freelancerFee |-> freelancerFee,
              totalFees |-> FAdd(clientFee, freelancerFee),
              freelancerReceives |-> FSub(Num(amount), freelancerFee),
              clientPays |-> FAdd(Num(amount), clientFee),
              rawAmount |-> Num(amount)]

typeMap ==
    [x \in {".html", ".htm"} |-> "webpage"] @@
    (".js" :> "javascript") @@ (".css" :> "stylesheet") @@ (".json" :> "data") @@
    (".txt" :> "text") @@ (".md" :> "markdown") @@ (".csv" :> "spreadsheet") @@
    [x \in {".mp4", ".mov", ".avi", ".mkv", ".wmv"} |-> "video"] @@
    [x \in {".pdf", ".doc", ".docx"} |-> "document"] @@
    [x \in {".zip", ".rar", ".7z", ".tar", ".gz"} |-> "archive"] @@
    [x \in {".png", ".jpg", ".jpeg", ".gif", ".svg", ".bmp"} |-> "image"]

getFileType(extension) ==
    IF extension \in DOMAIN typeMap THEN typeMap[extension] ELSE "unknown"

textExtensions == {".html", ".htm", ".js", ".css", ".json", ".txt", ".md", ".csv", ".xml"}

\* isTextFile with .svg among the text extensions
isTextFileOrSvg(extension) == extension \in textExtensions \cup {".svg"}

isTextFile(extension) == extension \in textExtensions

\* accumulators that start below the threshold of the verdict
StartScoreLow == [score |-> Lit(50), issues |-> <<>>, strengths |-> <<>>]

\* the accumulators of analyzeSubmission
StartScore == [score |-> Lit(70), issues |-> <<>>, strengths |-> <<>>]

\* what a rule does: nothing, issues.push and -=, or strengths.push and +=
NoEffect == [kind |-> "none", text |-> "", delta |-> 0]
Penalty(issue, delta) == [kind |-> "issue", text |-> issue, delta |-> delta]
Reward(strength, delta) == [kind |-> "strength", text |-> strength, delta |-> delta]

\* content.includes(a) || content.includes(b) || ...
IncludesAny(content, toks) == content.tokens \cap toks # {}

\* the video rule with a penalty of 0.1 for a file that is no video
RuleVideoLenient(desc, fileType) ==
    IF "video" \in desc /\ fileType # "video"
    THEN Penalty("Description mentions video but submitted file is not a video file", 10)
    ELSE IF "video" \in desc /\ fileType = "video"
    THEN Reward("Correctly submitted video file as requested", 20)
    ELSE NoEffect

RuleVideo(desc, fileType) ==
    IF "video" \in desc /\ fileType # "video"
    THEN Penalty("Description mentions video but submitted file is not a video file", 50)
    ELSE IF "video" \in desc /\ fileType = "video"
    THEN Reward("Correctly submitted video file as requested", 20)
    ELSE NoEffect

RuleWebsite(desc, fileType) ==
    IF desc \cap {"website", "webpage", "html"} # {} /\ fileType \notin {"webpage", "html"}
    THEN Penalty("Description mentions website but submitted file is not a webpage", 40)
    ELSE IF desc \cap {"website", "webpage"} # {} /\ fileType \in {"webpage", "html"}
    THEN Reward("Correctly submitted webpage file as requested", 20)
    ELSE NoEffect

RuleImage(desc, fileType) ==
    IF "image" \in desc /\ fileType # "image"
    THEN Penalty("Description mentions image but submitted file is not an image", 40)
    ELSE IF "image" \in desc /\ fileType = "image"
    THEN Reward("Correctly submitted image file as requested", 20)
    ELSE NoEffect

RuleDocument(desc, fileType) ==
    IF "document" \in desc /\ fileType # "document"
    THEN Penalty("Description mentions document but submitted file is not a document", 30)
    ELSE IF "document" \in desc /\ fileType = "document"
    THEN Reward("Correctly submitted document file as requested", 20)
    ELSE NoEffect

RuleCode(desc, fileType) ==
    IF "code" \in desc /\ fileType \notin {"javascript", "webpage"}
    THEN Penalty("Description mentions code but submitted file is not a code file", 30)
    ELSE NoEffect

\* the responsive-design rule without "viewport" among the markers it accepts
RuleResponsiveIgnoringViewport(desc, fileType, content) ==
    IF "responsive" \in desc /\ fileType = "webpage"
    THEN IF ~IncludesAny(content, {"responsive", "@media", "mobile"})
         THEN Penalty("Website should be responsive but no responsive design elements found", 20)
         ELSE Reward("Responsive design elements detected", 10)
    ELSE NoEffect

RuleResponsive(desc, fileType, content) ==
    IF "responsive" \in desc /\ fileType = "webpage"
    THEN IF ~IncludesAny(content, {"viewport", "responsive", "@media", "mobile"})
         THEN Penalty("Website should be responsive but no responsive design elements found", 20)
         ELSE Reward("Responsive design elements detected", 10)
    ELSE NoEffect

RuleJavaScript(desc, fileType, content) ==
    IF "javascript" \in desc /\ fileType = "webpage" /\ "script" \notin content.tokens
    THEN Penalty("JavaScript mentioned but no scripts found in webpage", 20)
    ELSE IF "javascript" \in desc /\ fileType = "javascript"
    THEN Reward("JavaScript file submitted as expected", 10)
    ELSE NoEffect

RuleForm(desc, fileType, content) ==
    IF "form" \in desc /\ fileType = "webpage" /\ "<form" \notin content.tokens
    THEN Penalty("Form required but no form elements found", 15)
    ELSE IF "form" \in desc /\ fileType = "webpage" /\ "<form" \in content.tokens
    THEN Reward("Form elements detected in webpage", 10)
    ELSE NoEffect

\* the entries of htmlChecks, in the order Object.entries yields them
htmlChecks == << <<"Missing HTML doctype", "<!DOCTYPE">>, <<"Missing HTML tag", "<html">>,
                 <<"Missing head section", "<head">>, <<"Missing body section", "<body">>,
                 <<"Missing title tag", "<title">> >>

\* one round of the forEach over htmlChecks
RuleHtmlCheck(i, fileType, content) ==
    IF fileType = "webpage" /\ htmlChecks[i][2] \notin content.tokens
    THEN Penalty(htmlChecks[i][1], 5)
    ELSE NoEffect

RuleHtmlStructure(fileType, content) ==
    LET htmlIssues == Cardinality({i \in DOMAIN htmlChecks : htmlChecks[i][2] \notin content.tokens})
    IN  IF fileType = "webpage" /\ htmlIssues = 0
        THEN Reward("Proper HTML structure detected", 10)
        ELSE NoEffect

RuleHtmlElements(fileType, content) ==
    IF fileType = "webpage" /\ IncludesAny(content, {"<div", "<span", "<p"})
    THEN Reward("Standard HTML elements present", 5)
    ELSE NoEffect

RuleJsLength(fileType, content) ==
    IF fileType = "javascript" /\ content.length > 100
    THEN Reward("Substantial JavaScript code provided", 10)
    ELSE NoEffect

RuleJsFunctions(fileType, content) ==
    IF fileType = "javascript" /\ IncludesAny(content, {"function", "=>"})
    THEN Reward("Functions/methods implemented", 5)
    ELSE NoEffect

RuleVideoSize(fileType, fileSize) ==
    IF fileType = "video" /\ fileSize < 1000000
    THEN Penalty("Video file seems too small for a complete video (less than 1MB)", 20)
    ELSE IF fileType = "video" /\ fileSize > 1000000
    THEN Reward("Video file size appears appropriate", 10)
    ELSE NoEffect

RuleWebpageSize(fileType, fileSize) ==
    IF fileType = "webpage" /\ fileSize < 100
    THEN Penalty("Webpage file seems too small to contain meaningful content", 10)
    ELSE IF fileType = "webpage" /\ fileSize > 500
    THEN Reward("Substantial webpage content provided", 5)
    ELSE NoEffect

RuleContact(desc, fileType, content) ==
    IF "contact" \in desc /\ fileType = "webpage"
       /\ ~IncludesAny(content, {"contact", "email", "phone"})
    THEN Penalty("Contact information mentioned but no contact details found", 10)
    ELSE NoEffect

RuleNavigation(desc, fileType, content) ==
    IF "navigation" \in desc /\ fileType = "webpage"
       /\ ~IncludesAny(content, {"nav", "menu", "href"})
    THEN Penalty("Navigation required but no navigation elements found", 10)
    ELSE NoEffect

RuleClosed(fileType, content) ==
    IF fileType = "webpage" /\ {"</html>", "</body>"} \subseteq content.tokens
    THEN Reward("Webpage appears to be complete and properly closed", 5)
    ELSE NoEffect

RuleComments(fileType, content) ==
    IF fileType = "webpage" /\ {"<!--", "-->"} \subseteq content.tokens
    THEN Reward("Code includes comments for better maintainability", 5)
    ELSE NoEffect

RuleLength(fileType, content) ==
    IF fileType = "webpage" /\ content.length > 1000
    THEN Reward("Comprehensive webpage with substantial content", 10)
    ELSE NoEffect

RuleDocumentSize(fileType, fileSize) ==
    IF fileType = "document" /\ fileSize > 50000
    THEN Reward("Substantial document provided", 10)
    ELSE NoEffect

\* what the rules of analyzeSubmission do, in source order
Rules(desc, fileType, content, fileSize) ==
    << RuleVideo(desc, fileType), RuleWebsite(desc, fileType), RuleImage(desc, fileType),
       RuleDocument(desc, fileType), RuleCode(desc, fileType),
       RuleResponsive(desc, fileType, content), RuleJavaScript(desc, fileType, content),
       RuleForm(desc, fileType, content),
       RuleHtmlCheck(1, fileType, content), RuleHtmlCheck(2, fileType, content),
       RuleHtmlCheck(3, fileType, content), RuleHtmlCheck(4, fileType, content),
       RuleHtmlCheck(5, fileType, content),
       RuleHtmlStructure(fileType, content), RuleHtmlElements(fileType, content),
       RuleJsLength(fileType, content), RuleJsFunctions(fileType, content),
       RuleVideoSize(fileType, fileSize), RuleWebpageSize(fileType, fileSize),
       RuleContact(desc, fileType, content), RuleNavigation(desc, fileType, content),
       RuleClosed(fileType, content), RuleComments(fileType, content),
       RuleLength(fileType, content), RuleDocumentSize(fileType, fileSize) >>

\* the accumulators after one rule
Apply(acc, effect) ==
    IF effect.kind = "issue"
    THEN [acc EXCEPT !.issues = Append(@, effect.text), !.score = FSub(@, Lit(effect.delta))]
    ELSE IF effect.kind = "strength"
    THEN [acc EXCEPT !.strengths = Append(@, effect.text), !.score = FAdd(@, Lit(effect.delta))]
    ELSE acc

\* the accumulators after the first n rules
RECURSIVE ApplyFirst(_, _)
ApplyFirst(effects, n) ==
    IF n = 0 THEN StartScore ELSE Apply(ApplyFirst(effects, n - 1), effects[n])

ApplyAll(effects) == ApplyFirst(effects, Len(effects))

ApplyRules(desc, fileType, content, fileSize) ==
    ApplyAll(Rules(desc, fileType, content, fileSize))

\* the score left as the rules made it
Unclamped(score) == score

\* Math.max(0, Math.min(1, confidenceScore))
Clamp(score) == FMax(Num(0), FMin(Num(1), score))

\* confidenceScore >= 0.6 && issues.length <= 3
Verdict(score, issues) == FGeq(score, Lit(60)) /\ Len(issues) <= 3

\* the first sentence of the feedback text
Feedback(verified, score) ==
    IF verified
    THEN IF FGeq(score, Lit(80)) THEN "Excellent work! The submission perfectly matches the requirements. "
         ELSE IF FGeq(score, Lit(70)) THEN "Good work! The submission meets the requirements with minor notes. "
         ELSE "Acceptable work. The submission meets the basic requirements. "
    ELSE IF FLt(score, Lit(30)) THEN "Significant issues detected. The submission does not match the requirements. "
         ELSE IF FLt(score, Lit(50)) THEN "Multiple issues found. The submission needs substantial improvements. "
         ELSE "Some requirements not met. The submission needs improvements. "

\* the result analyzeSubmission returns for the clamped score and the verdict
AnalysisResult(verified, confidenceScore, acc, fileType) ==
    [verified |-> verified,
     confidenceScore |-> RoundTo2(confidenceScore),
     issues |-> acc.issues,
     strengths |-> acc.strengths,
     fileType |-> fileType,
     feedback |-> Feedback(verified, confidenceScore),
     qualityScore |-> confidenceScore]

\* the end of analyzeSubmission: the verdict on the clamped score
Judge(confidenceScore, acc, fileType) ==
    AnalysisResult(Verdict(confidenceScore, acc.issues), confidenceScore, acc, fileType)

\* the end of analyzeSubmission, from the accumulators the rules left
Conclude(acc, fileType) == Judge(Clamp(acc.score), acc, fileType)

analyzeSubmission(description, fileType, content, fileSize) ==
    Conclude(ApplyRules(description, fileType, content, fileSize), fileType)

\* the accumulators a call of analyzeSubmission starts from: its own, declared
\* anew in every call, whatever the call before left in its accumulators
SharedAccumulators(left) == left
InitialAccumulators(left) == StartScore

\* the accumulators after the first n rules, from the accumulators acc
RECURSIVE ApplyFrom(_, _, _)
ApplyFrom(acc, effects, n) ==
    IF n = 0 THEN acc ELSE Apply(ApplyFrom(acc, effects, n - 1), effects[n])

\* the accumulators at the end of a call of analyzeSubmission that follows a
\* call which left its accumulators as left
AccumulatorsAfter(left, description, fileType, content, fileSize) ==
    ApplyFrom(InitialAccumulators(left),
              Rules(description, fileType, content, fileSize), 25)

\* the same rules, evaluated last to first
Backwards(effects) == [i \in DOMAIN effects |-> effects[Len(effects) + 1 - i]]

\* the exact sum, in hundredths, of the deltas of the first n effects
RECURSIVE SumOfDeltas(_, _)
SumOfDeltas(effects, n) ==
    IF n = 0 THEN 0
    ELSE SumOfDeltas(effects, n - 1) +
         (IF effects[n].kind = "issue" THEN -effects[n].delta
          ELSE IF effects[n].kind = "strength" THEN effects[n].delta ELSE 0)

\* the effects that are penalties, and those that are rewards
PenaltiesOf(effects) == {i \in DOMAIN effects : effects[i].kind = "issue"}
RewardsOf(effects) == {i \in DOMAIN effects : effects[i].kind = "strength"}

\* an early result of verifyTask: no analysis was run
EarlyResult(feedback, issue, escrowAmount) ==
    [verified |-> FALSE,
     confidenceScore |-> Num(0),
     feedback |-> feedback,
     issues |-> <<issue>>,
     fileType |-> "unknown",
     strengths |-> <<>>,
     feeBreakdown |-> calculateFeeBreakdown(escrowAmount)]

\* { ...analysisResult, feeBreakdown }
WithFees(r, escrowAmount) ==
    [verified |-> r.verified,
     confidenceScore |-> r.confidenceScore,
     feedback |-> r.feedback,
     issues |-> r.issues,
     fileType |-> r.fileType,
     strengths |-> r.strengths,
     qualityScore |-> r.qualityScore,
     feeBreakdown |-> calculateFeeBreakdown(escrowAmount)]

\* the content verifyTask reads: text files only, empty when reading fails
ReadContent(file) ==
    IF isTextFile(file.ext) /\ file.fault # "read"
    THEN [tokens |-> file.tokens, length |-> file.size]
    ELSE [tokens |-> {}, length |-> 0]

\* verifyTask of ai.js.  taskDescription is [empty, words]; file is
\* [given, exists, fault, ext, size, tokens]: whether a path was passed, whether it
\* exists, which file system call fails ("none", "stat", "read"), and the file itself.
verifyTask(taskDescription, file, escrowAmount) ==
    IF taskDescription.empty \/ ~file.given
    THEN EarlyResult("Missing task description or file",
                     "No file uploaded or description provided", escrowAmount)
    ELSE IF ~file.exists
    THEN EarlyResult("Uploaded file not found or inaccessible",
                     "File was uploaded but cannot be accessed", escrowAmount)
    ELSE IF file.fault = "stat"
    THEN EarlyResult("AI analysis failed due to system error",
                     "System error during analysis", escrowAmount)
    ELSE WithFees(analyzeSubmission(taskDescription.words, getFileType(file.ext),
                                    ReadContent(file), file.size),
                  escrowAmount)

(***************************************************************************)
(* The inputs the scoring is checked on.                                   *)
(***************************************************************************)
\* a description includes at most this many rule keywords
MaxKeywords == 2

Descriptions ==
    {[empty |-> TRUE, words |-> {}]} \cup
    {[empty |-> FALSE, words |-> w] : w \in {x \in SUBSET Keywords : Cardinality(x) <= MaxKeywords}}

\* besides structure tags a page holds no other marker, one other marker, or one
\* of the marker pairs a rule asks for together
OtherMarkers ==
    {{}} \cup {{m} : m \in (Markers \ StructureTags) \ {"function", "=>"}}
         \cup {{"</html>", "</body>"}, {"<!--", "-->"}}

WebContents == {t \cup o : t \in SUBSET StructureTags, o \in OtherMarkers}

RECURSIVE TokensLength(_)
TokensLength(toks) ==
    IF toks = {} THEN 0
    ELSE LET t == CHOOSE x \in toks : TRUE IN Len(t) + TokensLength(toks \ {t})

GoodFile(ext, size, toks) ==
    [given |-> TRUE, exists |-> TRUE, fault |-> "none", ext |-> ext, size |-> size, tokens |-> toks]

WebFiles == {GoodFile(".html", s, c) : s \in {60, 300, 800, 2000}, c \in WebContents}

ScriptFiles == {GoodFile(".js", s, c) : s \in {60, 200}, c \in SUBSET {"function", "=>"}}

PlainFiles ==
    {GoodFile(x, s, {}) : x \in (DOMAIN typeMap \cup {".xml", ".exe", ""}) \ {".html", ".js"},
                          s \in {500, 60000, 1000000, 2000000}}

FaultyFiles ==
    {[GoodFile(".html", 800, StructureTags) EXCEPT !.fault = "read"],
     [GoodFile(".html", 800, StructureTags) EXCEPT !.fault = "stat"],
     [GoodFile(".html", 800, StructureTags) EXCEPT !.exists = FALSE],
     [GoodFile(".html", 800, StructureTags) EXCEPT !.given = FALSE],
     [GoodFile(".txt", 500, {}) EXCEPT !.fault = "read"]}

Files == {f \in WebFiles \cup ScriptFiles \cup PlainFiles : TokensLength(f.tokens) <= f.size}
         \cup FaultyFiles


\* 'Build a responsive landing page with a contact form': the rule keywords
\* its lower-cased text includes
ScenarioADescription == [empty |-> FALSE, words |-> {"responsive", "form", "contact"}]

\* what scenario A fixes of the page, and the markers it leaves open
ScenarioAMarkers == StructureTags \cup {"<form", "viewport"}
ScenarioAOpenMarkers ==
    {"<div", "<p", "contact", "email", "</html>", "</body>", "<!--", "-->", "script", "href"}

ScenarioAFiles ==
    {f \in {GoodFile(".html", s, ScenarioAMarkers \cup o) :
                s \in {60, 99, 100, 500, 501, 1000, 1001}, o \in SUBSET ScenarioAOpenMarkers} :
        TokensLength(f.tokens) <= f.size}

\* 'Create a 2-minute demo video': the rule keywords its lower-cased text includes
ScenarioBDescription == [empty |-> FALSE, words |-> {"video"}]

\* the markers a page of scenario B may hold
ScenarioBOpenMarkers ==
    StructureTags \cup
    {"<div", "</html>", "</body>", "<!--", "-->", "viewport", "<form", "contact"}

ScenarioBFiles == {GoodFile(".html", 800, o) : o \in SUBSET ScenarioBOpenMarkers}

ScenarioInputs ==
    [task : {ScenarioADescription}, file : ScenarioAFiles, escrowAmount : {35}] \cup
    [task : {ScenarioBDescription}, file : ScenarioBFiles, escrowAmount : {35}]

(***************************************************************************)
(* State.                                                                  *)
(***************************************************************************)
VARIABLES
    owner,          \* TrustArcEscrow.owner
    token,          \* TrustArcEscrow.token: the token contract it calls
    escrowCounter,  \* TrustArcEscrow.escrowCounter
    escrows,        \* TrustArcEscrow.escrows
    balances,       \* the token's balance of every account
    allowance,      \* the token allowance every account gave the escrow contract
    lastCall,       \* the latest contract call made directly and how it ended
    paid,           \* history: tokens each escrow's settlements sent out
    reqs,           \* the /verify-and-release requests of server.js
    agentRun,       \* a call of verifyAgent.js verifyTask
    scoreIn, scoreOut,  \* a call of ai.js verifyTask
    feeIn, feeOut,      \* a call of the fee calculation
    ui,                 \* the state of the page App.jsx renders
    circle              \* the Circle ledger and the calls of circleClient.js

chainVars == <<owner, token, escrowCounter, escrows, balances, allowance, lastCall, paid>>
serverVars == <<reqs, agentRun>>
pureVars == <<scoreIn, scoreOut, feeIn, feeOut>>
uiVars == <<ui>>
circleVars == <<circle>>
vars == <<chainVars, serverVars, pureVars, uiVars, circleVars>>

(***************************************************************************)
(* TrustArcEscrow.sol and its token.                                       *)
(***************************************************************************)
\* the agent's wallet deploys the contracts and signs the release calls
AGENT == "agent"
Users == {"alice", "bob"}
Accounts == Users \cup {AGENT}
ZERO == "0x0"
\* the token the contract is deployed with, and another address: a token in
\* which no account of the model holds anything
USDC == "USDC"
OTHER_TOKEN == "other"
Tokens == {USDC, OTHER_TOKEN}
CONTRACT == "TrustArcEscrow"

\* at most this many escrows are created
MaxEscrows == 2
\* the ids calls are made with: those createEscrow can give out and one it never does
EscrowIds == 0..MaxEscrows
Amounts == {0, 1, 2}

NoEscrow == [client |-> ZERO, freelancer |-> ZERO, amount |-> 0, status |-> "None", exists |-> FALSE]

\* escrows[escrowId], a zero-filled struct where nothing was stored
EscrowAt(es, escrowId) == IF escrowId \in DOMAIN es THEN es[escrowId] ELSE NoEscrow

NoCall == [op |-> "none", caller |-> ZERO, escrowId |-> 0, result |-> "none"]

\* token.transferFrom(from, address(this), amount) succeeds
CanTransferFrom(from, amount) ==
    token = USDC /\ balances[from] >= amount /\ allowance[from] >= amount

\* token.transfer(to, amount) from the contract succeeds
CanTransfer(amount) == token = USDC /\ balances[CONTRACT] >= amount

\* createEscrow without its check that client and freelancer differ
createEscrowAnyParty(sender, freelancer, amount) ==
    IF freelancer = ZERO THEN "invalid freelancer"
    ELSE IF ~(amount > 0) THEN "amount must be greater than 0"
    ELSE "ok"

\* how createEscrow(freelancer, amount) called by sender ends
createEscrowResult(sender, freelancer, amount) ==
    IF freelancer = ZERO THEN "invalid freelancer"
    ELSE IF ~(amount > 0) THEN "amount must be greater than 0"
    ELSE IF freelancer = sender THEN "client and freelancer cannot be the same"
    ELSE "ok"

\* depositFunds without its check of the status
depositFundsAnyStatus(sender, escrowId) ==
    LET e == EscrowAt(escrows, escrowId)
    IN  IF ~e.exists THEN "escrow does not exist"
        ELSE IF sender # e.client THEN "only client can deposit"
        ELSE IF ~CanTransferFrom(sender, e.amount) THEN "token transfer failed"
        ELSE "ok"

\* depositFunds without its check of the caller
depositFundsAnyCaller(sender, escrowId) ==
    LET e == EscrowAt(escrows, escrowId)
    IN  IF ~e.exists THEN "escrow does not exist"
        ELSE IF e.status # "None" THEN "already deposited or completed"
        ELSE IF ~CanTransferFrom(sender, e.amount) THEN "token transfer failed"
        ELSE "ok"

\* how depositFunds(escrowId) called by sender ends
depositFundsResult(sender, escrowId) ==
    LET e == EscrowAt(escrows, escrowId)
    IN  IF ~e.exists THEN "escrow does not exist"
        ELSE IF e.status # "None" THEN "already deposited or completed"
        ELSE IF sender # e.client THEN "only client can deposit"
        ELSE IF ~CanTransferFrom(sender, e.amount) THEN "token transfer failed"
        ELSE "ok"

\* releasePayment without its check of the status
releasePaymentAnyStatus(sender, escrowId) ==
    LET e == EscrowAt(escrows, escrowId)
    IN  IF sender # owner THEN "only owner"
        ELSE IF ~e.exists THEN "escrow does not exist"
        ELSE IF ~CanTransfer(e.amount) THEN "token transfer to freelancer failed"
        ELSE "ok"

\* releasePayment without its onlyOwner modifier
releasePaymentAnyCaller(sender, escrowId) ==
    LET e == EscrowAt(escrows, escrowId)
    IN  IF ~e.exists THEN "escrow does not exist"
        ELSE IF e.status # "Deposited" THEN "not in deposited state"
        ELSE IF ~CanTransfer(e.amount) THEN "token transfer to freelancer failed"
        ELSE "ok"

\* how releasePayment(escrowId) called by sender ends
releasePaymentResult(sender, escrowId) ==
    LET e == EscrowAt(escrows, escrowId)
    IN  IF sender # owner THEN "only owner"
        ELSE IF ~e.exists THEN "escrow does not exist"
        ELSE IF e.status # "Deposited" THEN "not in deposited state"
        ELSE IF ~CanTransfer(e.amount) THEN "token transfer to freelancer failed"
        ELSE "ok"

\* returnFunds without its check of the status
returnFundsAnyStatus(sender, escrowId) ==
    LET e == EscrowAt(escrows, escrowId)
    IN  IF sender # owner THEN "only owner"
        ELSE IF ~e.exists THEN "escrow does not exist"
        ELSE IF ~CanTransfer(e.amount) THEN "token return to client failed"
        ELSE "ok"

\* how returnFunds(escrowId) called by sender ends
returnFundsResult(sender, escrowId) ==
    LET e == EscrowAt(escrows, escrowId)
    IN  IF sender # owner THEN "only owner"
        ELSE IF ~e.exists THEN "escrow does not exist"
        ELSE IF e.status # "Deposited" THEN "not in deposited state"
        ELSE IF ~CanTransfer(e.amount) THEN "token return to client failed"
        ELSE "ok"

\* createEscrow storing every escrow under the id 0
createEscrowAtZero(sender, freelancer, amount) ==
    IF createEscrowResult(sender, freelancer, amount) = "ok"
    THEN /\ escrows' = (0 :> [client |-> sender, freelancer |-> freelancer,
                              amount |-> amount, status |-> "None",
                              exists |-> TRUE]) @@ escrows
         /\ escrowCounter' = escrowCounter + 1
         /\ paid' = (0 :> [freelancer |-> 0, client |-> 0]) @@ paid
    ELSE UNCHANGED <<escrows, escrowCounter, paid>>

\* the contract state after a call: a reverted call changes nothing
createEscrowEffect(sender, freelancer, amount) ==
    IF createEscrowResult(sender, freelancer, amount) = "ok"
    THEN /\ escrows' = (escrowCounter :> [client |-> sender, freelancer |-> freelancer,
                                          amount |-> amount, status |-> "None",
                                          exists |-> TRUE]) @@ escrows
         /\ escrowCounter' = escrowCounter + 1
         /\ paid' = (escrowCounter :> [freelancer |-> 0, client |-> 0]) @@ paid
    ELSE UNCHANGED <<escrows, escrowCounter, paid>>

depositFundsEffect(sender, escrowId) ==
    IF depositFundsResult(sender, escrowId) = "ok"
    THEN LET e == escrows[escrowId]
         IN  /\ balances' = [balances EXCEPT ![sender] = @ - e.amount,
                                             ![CONTRACT] = @ + e.amount]
             /\ allowance' = [allowance EXCEPT ![sender] = @ - e.amount]
             /\ escrows' = [escrows EXCEPT ![escrowId].status = "Deposited"]
    ELSE UNCHANGED <<balances, allowance, escrows>>

releasePaymentEffect(sender, escrowId) ==
    IF releasePaymentResult(sender, escrowId) = "ok"
    THEN LET e == escrows[escrowId]
         IN  /\ escrows' = [escrows EXCEPT ![escrowId].status = "Released"]
             /\ balances' = [balances EXCEPT ![CONTRACT] = @ - e.amount,
                                             ![e.freelancer] = @ + e.amount]
             /\ paid' = [paid EXCEPT ![escrowId].freelancer = @ + e.amount]
    ELSE UNCHANGED <<escrows, balances, paid>>

returnFundsEffect(sender, escrowId) ==
    IF returnFundsResult(sender, escrowId) = "ok"
    THEN LET e == escrows[escrowId]
         IN  /\ escrows' = [escrows EXCEPT ![escrowId].status = "Refunded"]
             /\ balances' = [balances EXCEPT ![CONTRACT] = @ - e.amount,
                                             ![e.client] = @ + e.amount]
             /\ paid' = [paid EXCEPT ![escrowId].client = @ + e.amount]
    ELSE UNCHANGED <<escrows, balances, paid>>

\* token.approve(escrow contract, amount) by sender
Approve(sender, amount) ==
    /\ allowance' = [allowance EXCEPT ![sender] = amount]
    /\ UNCHANGED <<owner, token, escrowCounter, escrows, balances, lastCall, paid>>
    /\ UNCHANGED <<serverVars, pureVars, uiVars, circleVars>>

\* the contract calls, made directly by any account
CreateEscrow(sender, freelancer, amount) ==
    /\ escrowCounter < MaxEscrows
    /\ createEscrowEffect(sender, freelancer, amount)
    /\ lastCall' = [op |-> "createEscrow", caller |-> sender, escrowId |-> escrowCounter,
                    result |-> createEscrowResult(sender, freelancer, amount)]
    /\ UNCHANGED <<owner, token, balances, allowance>>
    /\ UNCHANGED <<serverVars, pureVars, uiVars, circleVars>>

DepositFunds(sender, escrowId) ==
    /\ depositFundsEffect(sender, escrowId)
    /\ lastCall' = [op |-> "depositFunds", caller |-> sender, escrowId |-> escrowId,
                    result |-> depositFundsResult(sender, escrowId)]
    /\ UNCHANGED <<owner, token, escrowCounter, paid>>
    /\ UNCHANGED <<serverVars, pureVars, uiVars, circleVars>>

ReleasePayment(sender, escrowId) ==
    /\ releasePaymentEffect(sender, escrowId)
    /\ lastCall' = [op |-> "releasePayment", caller |-> sender, escrowId |-> escrowId,
                    result |-> releasePaymentResult(sender, escrowId)]
    /\ UNCHANGED <<owner, token, escrowCounter, allowance>>
    /\ UNCHANGED <<serverVars, pureVars, uiVars, circleVars>>

ReturnFunds(sender, escrowId) ==
    /\ returnFundsEffect(sender, escrowId)
    /\ lastCall' = [op |-> "returnFunds", caller |-> sender, escrowId |-> escrowId,
                    result |-> returnFundsResult(sender, escrowId)]
    /\ UNCHANGED <<owner, token, escrowCounter, allowance>>
    /\ UNCHANGED <<serverVars, pureVars, uiVars, circleVars>>

\* how emergencyWithdraw(to, amount) called by sender ends
emergencyWithdrawResult(sender, to, amount) ==
    IF sender # owner THEN "only owner"
    ELSE IF ~CanTransfer(amount) THEN "emergency withdrawal failed"
    ELSE "ok"

EmergencyWithdraw(sender, to, amount) ==
    /\ IF emergencyWithdrawResult(sender, to, amount) = "ok"
       THEN balances' = [balances EXCEPT ![CONTRACT] = @ - amount, ![to] = @ + amount]
       ELSE UNCHANGED balances
    /\ lastCall' = [op |-> "emergencyWithdraw", caller |-> sender, escrowId |-> 0,
                    result |-> emergencyWithdrawResult(sender, to, amount)]
    /\ UNCHANGED <<owner, token, escrowCounter, escrows, allowance, paid>>
    /\ UNCHANGED <<serverVars, pureVars, uiVars, circleVars>>

SetTokenAddress(sender, newTokenAddress) ==
    /\ token' = IF sender = owner THEN newTokenAddress ELSE token
    /\ lastCall' = [op |-> "setTokenAddress", caller |-> sender, escrowId |-> 0,
                    result |-> IF sender = owner THEN "ok" ELSE "only owner"]
    /\ UNCHANGED <<owner, escrowCounter, escrows, balances, allowance, paid>>
    /\ UNCHANGED <<serverVars, pureVars, uiVars, circleVars>>

\* how transferOwnership(newOwner) called by sender ends
transferOwnershipResult(sender, newOwner) ==
    IF sender # owner THEN "only owner"
    ELSE IF newOwner = ZERO THEN "invalid new owner"
    ELSE "ok"

TransferOwnership(sender, newOwner) ==
    /\ owner' = IF transferOwnershipResult(sender, newOwner) = "ok" THEN newOwner ELSE owner
    /\ lastCall' = [op |-> "transferOwnership", caller |-> sender, escrowId |-> 0,
                    result |-> transferOwnershipResult(sender, newOwner)]
    /\ UNCHANGED <<token, escrowCounter, escrows, balances, allowance, paid>>
    /\ UNCHANGED <<serverVars, pureVars, uiVars, circleVars>>

\* after deployment: the deployer owns the contract and the users hold tokens
ChainInit ==
    /\ owner = AGENT
    /\ token = USDC
    /\ escrowCounter = 0
    /\ escrows = <<>>
    /\ balances = [a \in Accounts \cup {CONTRACT} |-> IF a \in Users THEN 2 ELSE 0]
    /\ allowance = [a \in Accounts |-> 0]
    /\ lastCall = NoCall
    /\ paid = <<>>

(***************************************************************************)
(* agent/src/blockchain.js and agent/src/server.js.                        *)
(***************************************************************************)
Digits == <<"0", "1", "2", "3", "4", "5", "6", "7", "8", "9">>
IsDigit(ch) == \E i \in DOMAIN Digits : Digits[i] = ch
DigitVal(ch) == (CHOOSE i \in DOMAIN Digits : Digits[i] = ch) - 1

\* the value of a string of decimal digits
RECURSIVE DecimalVal(_)
DecimalVal(str) ==
    IF str = <<>> THEN 0
    ELSE 10 * DecimalVal(SubSeq(str, 1, Len(str) - 1)) + DigitVal(str[Len(str)])

\* a form field: the characters sent, or undefined when the field is absent
Field(text) == [present |-> TRUE, text |-> text]
Undefined == [present |-> FALSE, text |-> <<>>]

NaN == [nan |-> TRUE, val |-> 0]
Number(n) == [nan |-> FALSE, val |-> n]

\* Number(x) for a form field holding no sign, space, point or exponent
ToNumber(x) ==
    IF ~x.present THEN NaN
    ELSE IF \A i \in DOMAIN x.text : IsDigit(x.text[i]) THEN Number(DecimalVal(x.text))
    ELSE NaN

\* the digits a string starts with
RECURSIVE LeadingDigits(_)
LeadingDigits(str) ==
    IF str = <<>> \/ ~IsDigit(Head(str)) THEN <<>>
    ELSE <<Head(str)>> \o LeadingDigits(Tail(str))

\* parseFloat(x) || 0 for a form field holding no sign, point or exponent
parseAmount(x) ==
    IF ~x.present \/ LeadingDigits(x.text) = <<>> THEN 0
    ELSE DecimalVal(LeadingDigits(x.text))

\* ethers.id(String(x)) read as an escrow id: no escrow is stored under a hash
HashedId == MaxEscrows + 1

\* the argument releaseFunds passes to the contract
releaseParam(escrowIdOrTxnId) ==
    IF ToNumber(escrowIdOrTxnId).nan THEN HashedId ELSE ToNumber(escrowIdOrTxnId).val

Requests == {"r1", "r2"}

\* the escrowId fields requests carry
EscrowIdFields == {Field(<<"0">>), Undefined}
\* the escrowAmount fields requests carry
AmountFields == {Field(<<"2">>), Field(<<"x">>)}

\* multer stores an upload under a generated name that has no extension
Upload(size) == GoodFile("", size, {})
NoUpload == [given |-> FALSE, exists |-> FALSE, fault |-> "none", ext |-> "",
             size |-> 0, tokens |-> {}]

\* the task descriptions and uploads requests carry
Submissions ==
    { [task |-> [empty |-> FALSE, words |-> {}], file |-> Upload(300)],
      [task |-> [empty |-> FALSE, words |-> {"video"}], file |-> Upload(300)],
      [task |-> [empty |-> FALSE, words |-> {}], file |-> NoUpload],
      [task |-> [empty |-> TRUE, words |-> {}], file |-> Upload(300)] }

NoResult == [none |-> TRUE]

\* what verifyTask returns to the handler, for every submission and amount
verificationResults ==
    [sub \in Submissions, escrowAmount \in AmountFields |->
        verifyTask(sub.task, sub.file, parseAmount(escrowAmount))]

\* funded is history: the escrow the request names was Deposited when it arrived
\* response, success and responses are the status and the success flag of the
\* answer sent and the number of answers sent
IdleRequest == [pc |-> "idle", escrowId |-> Undefined, result |-> NoResult,
                issued |-> FALSE, receipt |-> "none", response |-> "none",
                tempFile |-> FALSE, funded |-> FALSE, success |-> FALSE,
                responses |-> 0]

\* the escrow named by escrowId is Deposited
Funded(escrowId) == EscrowAt(escrows, releaseParam(escrowId)).status = "Deposited"

\* the requests are numbered in their order of arrival
Earlier(r) == {q \in Requests : <<q, r>> \in {<<"r1", "r2">>}}

\* requests between the start of their handler and its end
InFlight(r) == reqs[r].pc \in {"releasing", "pending", "confirmed"}

\* the handler calling releaseFunds whatever the verdict is
ReceiveAndRelease(r, escrowId, sub, escrowAmount) ==
    /\ reqs[r].pc = "idle"
    /\ \A q \in Earlier(r) : reqs[q].pc # "idle"
    /\ reqs' = [reqs EXCEPT ![r] =
           [pc |-> "releasing", escrowId |-> escrowId,
            result |-> verificationResults[sub, escrowAmount],
            issued |-> TRUE, receipt |-> "none", response |-> "none",
            tempFile |-> sub.file.given, funded |-> Funded(escrowId),
            success |-> FALSE, responses |-> 0]]
    /\ UNCHANGED <<chainVars, agentRun, pureVars, uiVars, circleVars>>

\* the handler from the arrival of the request to its first wait on the network:
\* verifyTask settles without input or output that can wait, so nothing else
\* runs before the verdict is acted on
Receive(r, escrowId, sub, escrowAmount) ==
    /\ reqs[r].pc = "idle"
    /\ \A q \in Earlier(r) : reqs[q].pc # "idle"
    /\ LET verificationResult == verificationResults[sub, escrowAmount]
       IN  reqs' = [reqs EXCEPT ![r] =
               IF ~verificationResult.verified
               THEN [pc |-> "done", escrowId |-> escrowId, result |-> verificationResult,
                     issued |-> FALSE, receipt |-> "none", response |-> "REJECTED",
                     tempFile |-> FALSE, funded |-> Funded(escrowId),
                     success |-> FALSE, responses |-> 1]
               ELSE [pc |-> "releasing", escrowId |-> escrowId, result |-> verificationResult,
                     issued |-> TRUE, receipt |-> "none", response |-> "none",
                     tempFile |-> sub.file.given, funded |-> Funded(escrowId),
                     success |-> FALSE, responses |-> 0]]
    /\ UNCHANGED <<chainVars, agentRun, pureVars, uiVars, circleVars>>

\* upload.single refuses the upload (file too large, type not supported): the
\* handler is not run and the error middleware answers
UploadRefused(r) ==
    /\ reqs[r].pc = "idle"
    /\ \A q \in Earlier(r) : reqs[q].pc # "idle"
    /\ reqs' = [reqs EXCEPT ![r] = [IdleRequest EXCEPT !.pc = "done", !.response = "ERROR",
                                                      !.success = FALSE, !.responses = 1]]
    /\ UNCHANGED <<chainVars, agentRun, pureVars, uiVars, circleVars>>

\* the handler ending in its catch without removing the uploaded file
ReleaseThrowsKeepingFile(r) ==
    /\ reqs[r].pc = "releasing"
    /\ reqs' = [reqs EXCEPT ![r].pc = "done", ![r].response = "ERROR",
                            ![r].success = FALSE, ![r].responses = @ + 1]
    /\ UNCHANGED <<chainVars, agentRun, pureVars, uiVars, circleVars>>

\* the handler ending in its catch without an answer
ReleaseThrowsUnanswered(r) ==
    /\ reqs[r].pc = "releasing"
    /\ reqs' = [reqs EXCEPT ![r].pc = "done", ![r].tempFile = FALSE]
    /\ UNCHANGED <<chainVars, agentRun, pureVars, uiVars, circleVars>>

\* escrowContract.releaseFunds(param) throws: the node or the network refuses
\* the call, or the loaded ABI has no such function
ReleaseThrows(r) ==
    /\ reqs[r].pc = "releasing"
    /\ reqs' = [reqs EXCEPT ![r].pc = "done", ![r].response = "ERROR",
                            ![r].success = FALSE, ![r].responses = @ + 1,
                            ![r].tempFile = FALSE]
    /\ UNCHANGED <<chainVars, agentRun, pureVars, uiVars, circleVars>>

\* escrowContract.releaseFunds(param) resolves: the transaction is sent
ReleaseSent(r) ==
    /\ reqs[r].pc = "releasing"
    /\ reqs' = [reqs EXCEPT ![r].pc = "pending"]
    /\ UNCHANGED <<chainVars, agentRun, pureVars, uiVars, circleVars>>

\* the ledger executes the transaction, signed by the agent's wallet
ReleaseMined(r) ==
    /\ reqs[r].pc = "pending"
    /\ LET param == releaseParam(reqs[r].escrowId)
       IN  /\ releasePaymentEffect(AGENT, param)
           /\ reqs' = [reqs EXCEPT ![r].pc = "confirmed",
                                   ![r].receipt = releasePaymentResult(AGENT, param)]
    /\ UNCHANGED <<owner, token, escrowCounter, allowance, lastCall>>
    /\ UNCHANGED <<agentRun, pureVars, uiVars, circleVars>>

\* the handler answering VERIFIED whatever the receipt says
RespondVerified(r) ==
    /\ reqs[r].pc = "confirmed"
    /\ reqs' = [reqs EXCEPT ![r].pc = "done", ![r].tempFile = FALSE,
                            ![r].responses = @ + 1,
                            ![r].success = TRUE,
                            ![r].response = "VERIFIED"]
    /\ UNCHANGED <<chainVars, agentRun, pureVars, uiVars, circleVars>>

\* tx.wait() settles and the handler answers
Respond(r) ==
    /\ reqs[r].pc = "confirmed"
    /\ reqs' = [reqs EXCEPT ![r].pc = "done", ![r].tempFile = FALSE,
                            ![r].responses = @ + 1,
                            ![r].success = (reqs[r].receipt = "ok"),
                            ![r].response = IF reqs[r].receipt = "ok" THEN "VERIFIED"
                                            ELSE "ERROR"]
    /\ UNCHANGED <<chainVars, agentRun, pureVars, uiVars, circleVars>>

(***************************************************************************)
(* agent/src/verifyAgent.js.                                               *)
(***************************************************************************)
\* the proofUrl arguments: containing "fail" in some case, or not, or absent
ProofUrls == {"proof.png", "FAIL.png", "undefined"}
ContainsFail(proofUrl) == proofUrl = "FAIL.png"

\* runAiVerification(proofUrl)
runAiVerification(proofUrl) ==
    IF proofUrl # "undefined" /\ ContainsFail(proofUrl) THEN FALSE ELSE TRUE

IdleRun == [pc |-> "idle", passed |-> FALSE, issued |-> FALSE, status |-> "none",
            receipt |-> "none"]

\* verifyTask(txnId, proofUrl) up to its call of the ledger; keysSet tells
\* whether PRIVATE_KEY and ESCROW_CONTRACT_ADDRESS are configured
AgentVerify(proofUrl, keysSet) ==
    /\ agentRun.pc = "idle"
    /\ LET verificationPassed == runAiVerification(proofUrl)
       IN  agentRun' =
               IF ~verificationPassed
               THEN [IdleRun EXCEPT !.pc = "done", !.status = "REJECTED"]
               ELSE IF ~keysSet
               THEN [IdleRun EXCEPT !.pc = "done", !.passed = TRUE, !.status = "ERROR"]
               ELSE [IdleRun EXCEPT !.pc = "releasing", !.passed = TRUE, !.issued = TRUE]
    /\ UNCHANGED <<chainVars, reqs, pureVars, uiVars, circleVars>>

\* escrow.releaseFunds(bytes32Id) and tx.wait() end: the contract behind
\* ESCROW_ABI is not TrustArcEscrow, whose state the call leaves alone
AgentReleaseEnds(succeeded) ==
    /\ agentRun.pc = "releasing"
    /\ agentRun' = [agentRun EXCEPT !.pc = "done",
                                    !.receipt = IF succeeded THEN "ok" ELSE "failed",
                                    !.status = IF succeeded THEN "VERIFIED" ELSE "ERROR"]
    /\ UNCHANGED <<chainVars, reqs, pureVars, uiVars, circleVars>>

(***************************************************************************)
(* frontend App.jsx: the escrow workflow of the page.  Its create and      *)
(* deposit handlers simulate the ledger with a timer and keep the escrow   *)
(* in the component's state.                                               *)
(***************************************************************************)
\* the escrow ids the page draws, Math.floor(Math.random() * 1000) + 1, are
\* taken from 1..MaxUiEscrowId
MaxUiEscrowId == 5

\* what the amount input may hold: nothing, zero, negative and positive numbers
AmountTexts ==
    { <<>>, <<"0">>, <<"-", "1">>, <<"-", "2">>, <<"1">>, <<"2">>, <<"3">>,
      <<"1", "0">>, <<"2", "5">>, <<"1", "0", "0">> }

\* parseFloat(text) for a text holding no space, point or exponent
parseFloat(text) ==
    IF text # <<>> /\ Head(text) = "-"
    THEN IF LeadingDigits(Tail(text)) = <<>> THEN NaN
         ELSE Number(-DecimalVal(LeadingDigits(Tail(text))))
    ELSE IF LeadingDigits(text) = <<>> THEN NaN
    ELSE Number(DecimalVal(LeadingDigits(text)))

\* x <= 0 and x > 0 on JavaScript numbers: both are false of NaN
LeqZero(x) == ~x.nan /\ x.val <= 0
GtZero(x) == ~x.nan /\ x.val > 0

\* escrowId: null, or the id drawn
Null == [null |-> TRUE, val |-> 0]
Id(n) == [null |-> FALSE, val |-> n]

\* the handler that is waiting for its timer, and the amount it has parsed
NoJob == [op |-> "none", amount |-> Number(0)]

\* file: whether a file is selected; taskDescription: whether the text has a
\* character that is not white space; answer: how the fetch of the latest
\* submission ended; settled: history, the final statuses shown since the
\* latest reset; deposited: history, the amount handleDeposit set as balance
\* since the latest reset
BackendAnswers == {"VERIFIED", "REJECTED", "OTHER"}
BackendFailures == {"HTTP_ERROR", "UNREACHABLE"}

\* freelancerAddress is a constant, non-empty demo address
freelancerAddress == TRUE

UiInit ==
    ui = [escrowId |-> Null, escrowAmount |-> <<>>, aiAgentStatus |-> "PENDING",
          escrowBalance |-> Number(0), loading |-> FALSE, currentStep |-> 1,
          job |-> NoJob, file |-> FALSE, taskDescription |-> FALSE,
          answer |-> "none", settled |-> {}, deposited |-> Number(0)]

isCreateDisabled ==
    \/ ui.loading
    \/ LeqZero(parseFloat(ui.escrowAmount))
    \/ ~freelancerAddress
    \/ (ui.escrowId # Null /\ GtZero(ui.escrowBalance))

isDepositDisabled ==
    \/ ui.loading
    \/ ui.escrowId = Null
    \/ GtZero(ui.escrowBalance)
    \/ LeqZero(parseFloat(ui.escrowAmount))

\* the amount input of step 1 changes
SetEscrowAmount(text) ==
    /\ ui.currentStep = 1
    /\ ~ui.loading
    /\ ui' = [ui EXCEPT !.escrowAmount = text]
    /\ UNCHANGED <<chainVars, serverVars, pureVars, circleVars>>

\* handleCreateEscrow up to its timer: the button of step 1 is pressed
handleCreateEscrow ==
    /\ ui.currentStep = 1
    /\ ~isCreateDisabled
    /\ LET amount == parseFloat(ui.escrowAmount)
       IN  ui' = IF LeqZero(amount) \/ ~freelancerAddress THEN ui
                 ELSE [ui EXCEPT !.loading = TRUE,
                                 !.job = [op |-> "create", amount |-> amount]]
    /\ UNCHANGED <<chainVars, serverVars, pureVars, circleVars>>

\* handleCreateEscrow after its timer
EscrowCreated(newEscrowId) ==
    /\ ui.job.op = "create"
    /\ ui' = [ui EXCEPT !.escrowId = Id(newEscrowId), !.currentStep = 2,
                        !.loading = FALSE, !.job = NoJob]
    /\ UNCHANGED <<chainVars, serverVars, pureVars, circleVars>>

\* handleDeposit up to its timer: the button of step 2 is pressed
handleDeposit ==
    /\ ui.currentStep = 2
    /\ ~isDepositDisabled
    /\ ui' = IF ui.escrowId = Null THEN ui
             ELSE [ui EXCEPT !.loading = TRUE,
                             !.job = [op |-> "deposit",
                                      amount |-> parseFloat(ui.escrowAmount)]]
    /\ UNCHANGED <<chainVars, serverVars, pureVars, circleVars>>

\* handleDeposit after its timer
FundsDeposited ==
    /\ ui.job.op = "deposit"
    /\ ui' = [ui EXCEPT !.escrowBalance = ui.job.amount,
                        !.deposited = ui.job.amount,
                        !.aiAgentStatus = "AWAITING_SUBMISSION",
                        !.escrowAmount = <<>>, !.currentStep = 3,
                        !.loading = FALSE, !.job = NoJob]
    /\ UNCHANGED <<chainVars, serverVars, pureVars, circleVars>>

isReleaseDisabled == ui.loading \/ ui.aiAgentStatus # "VERIFIED"
isReturnDisabled == ui.loading \/ ui.aiAgentStatus # "REJECTED"
isSubmitDisabled ==
    \/ ui.loading
    \/ ~ui.file
    \/ ~ui.taskDescription
    \/ ui.aiAgentStatus # "AWAITING_SUBMISSION"

\* handleFileUpload with a file of an accepted type and size
handleFileUpload ==
    /\ ui.currentStep = 3
    /\ ui' = [ui EXCEPT !.file = TRUE]
    /\ UNCHANGED <<chainVars, serverVars, pureVars, circleVars>>

\* the task description of step 3 changes
SetTaskDescription(nonBlank) ==
    /\ ui.currentStep = 3
    /\ ui' = [ui EXCEPT !.taskDescription = nonBlank]
    /\ UNCHANGED <<chainVars, serverVars, pureVars, circleVars>>

\* submitForVerification up to its fetch: the button of step 3 is pressed
submitForVerification ==
    /\ ui.currentStep = 3
    /\ ~isSubmitDisabled
    /\ ui' = IF ~ui.file \/ ~ui.taskDescription \/ ui.escrowId = Null THEN ui
             ELSE [ui EXCEPT !.loading = TRUE, !.aiAgentStatus = "ANALYZING",
                             !.job = [op |-> "verify", amount |-> ui.escrowBalance],
                             !.answer = "none"]
    /\ UNCHANGED <<chainVars, serverVars, pureVars, circleVars>>

\* submitForVerification after a response, setting the status and leaving
\* the step as it is
BackendAnsweredKeepingStep(answer) ==
    /\ ui.job.op = "verify"
    /\ ui' = [ui EXCEPT
                 !.answer = answer,
                 !.aiAgentStatus = IF answer \in {"VERIFIED", "REJECTED"} THEN answer
                                   ELSE "ERROR",
                 !.loading = FALSE, !.job = NoJob]
    /\ UNCHANGED <<chainVars, serverVars, pureVars, circleVars>>

\* submitForVerification after a response with response.ok and a JSON body
BackendAnswered(answer) ==
    /\ ui.job.op = "verify"
    /\ ui' = [ui EXCEPT
                 !.answer = answer,
                 !.aiAgentStatus = IF answer \in {"VERIFIED", "REJECTED"} THEN answer
                                   ELSE "ERROR",
                 !.currentStep = IF answer = "VERIFIED" THEN 4
                                 ELSE IF answer = "REJECTED" THEN 5 ELSE @,
                 !.loading = FALSE, !.job = NoJob]
    /\ UNCHANGED <<chainVars, serverVars, pureVars, circleVars>>

\* submitForVerification when fetch rejects or the response is not ok: the
\* catch block starts its timer
BackendFailed(failure) ==
    /\ ui.job.op = "verify"
    /\ ui' = [ui EXCEPT !.answer = failure, !.job = [@ EXCEPT !.op = "demo"]]
    /\ UNCHANGED <<chainVars, serverVars, pureVars, circleVars>>

\* the catch block after its timer: isSuccess = Math.random() > 0.2
DemoVerification(isSuccess) ==
    /\ ui.job.op = "demo"
    /\ ui' = [ui EXCEPT !.aiAgentStatus = IF isSuccess THEN "VERIFIED" ELSE "REJECTED",
                        !.currentStep = IF isSuccess THEN 4 ELSE 5,
                        !.loading = FALSE, !.job = NoJob]
    /\ UNCHANGED <<chainVars, serverVars, pureVars, circleVars>>

\* handleReleasePayment with no check of the status, behind a button that is
\* disabled only while loading
handleReleasePaymentUnchecked ==
    /\ ui.currentStep \in {4, 5}
    /\ ~ui.loading
    /\ ui' = [ui EXCEPT !.loading = TRUE,
                        !.job = [op |-> "release", amount |-> ui.escrowBalance]]
    /\ UNCHANGED <<chainVars, serverVars, pureVars, circleVars>>

\* handleReleasePayment up to its timer: the release button of steps 4 and 5
handleReleasePayment ==
    /\ ui.currentStep \in {4, 5}
    /\ ~isReleaseDisabled
    /\ ui' = IF ui.aiAgentStatus # "VERIFIED" THEN ui
             ELSE [ui EXCEPT !.loading = TRUE,
                             !.job = [op |-> "release", amount |-> ui.escrowBalance]]
    /\ UNCHANGED <<chainVars, serverVars, pureVars, circleVars>>

\* handleReleasePayment after its timer
PaymentReleased ==
    /\ ui.job.op = "release"
    /\ ui' = [ui EXCEPT !.aiAgentStatus = "RELEASED", !.escrowBalance = Number(0),
                        !.currentStep = 6, !.loading = FALSE, !.job = NoJob,
                        !.settled = @ \cup {"RELEASED"}]
    /\ UNCHANGED <<chainVars, serverVars, pureVars, circleVars>>

\* handleReturnFunds up to its timer: the return button of steps 4 and 5
handleReturnFunds ==
    /\ ui.currentStep \in {4, 5}
    /\ ~isReturnDisabled
    /\ ui' = IF ui.aiAgentStatus # "REJECTED" THEN ui
             ELSE [ui EXCEPT !.loading = TRUE,
                             !.job = [op |-> "return", amount |-> ui.escrowBalance]]
    /\ UNCHANGED <<chainVars, serverVars, pureVars, circleVars>>

\* handleReturnFunds after its timer
FundsReturned ==
    /\ ui.job.op = "return"
    /\ ui' = [ui EXCEPT !.aiAgentStatus = "RETURNED", !.escrowBalance = Number(0),
                        !.currentStep = 6, !.loading = FALSE, !.job = NoJob,
                        !.settled = @ \cup {"RETURNED"}]
    /\ UNCHANGED <<chainVars, serverVars, pureVars, circleVars>>

\* resetEscrow: the button of step 6
resetEscrow ==
    /\ ui.currentStep = 6
    /\ ui' = [ui EXCEPT !.escrowId = Null, !.escrowBalance = Number(0),
                        !.aiAgentStatus = "PENDING", !.escrowAmount = <<>>,
                        !.file = FALSE, !.taskDescription = FALSE,
                        !.answer = "none", !.currentStep = 1, !.settled = {},
                        !.deposited = Number(0)]
    /\ UNCHANGED <<chainVars, serverVars, pureVars, circleVars>>

(***************************************************************************)
(* agent/src/circleClient.js and the Circle ledger it posts transfers to.  *)
(***************************************************************************)
\* crypto.randomUUID() gives one of Uuids
MaxUuid == 3
Uuids == 1..MaxUuid
\* at most this many calls of transferUSDC are made
MaxTransferCalls == 3

WalletIds == {"w1", "w2"}
TransferAmounts == {1, 2}

\* the body transferUSDC posts, without its idempotencyKey
TransferBody(amount, destinationWalletId) ==
    [amount |-> amount, destination |-> destinationWalletId]

\* no key was generated: the call threw before anything was posted
NoKey == 0

CircleInit == circle = [ledger |-> <<>>, sent |-> <<>>]

\* POST /transfers at the ledger: a key it has seen makes no second transfer
PostTransfer(ledger, body, idempotencyKey) ==
    IF idempotencyKey \in DOMAIN ledger THEN ledger
    ELSE (idempotencyKey :> body) @@ ledger

\* transferUSDC(amount, destinationWalletId): the request reaches the ledger
\* with a key drawn by crypto.randomUUID(); the response arrives or is lost
transferUSDC(amount, destinationWalletId, uuid, answered) ==
    /\ Len(circle.sent) < MaxTransferCalls
    /\ LET body == TransferBody(amount, destinationWalletId)
       IN  circle' = [ledger |-> PostTransfer(circle.ledger, body, uuid),
                      sent |-> Append(circle.sent,
                                      [body |-> body, idempotencyKey |-> uuid,
                                       outcome |-> IF answered THEN "ok" ELSE "lost"])]
    /\ UNCHANGED <<chainVars, serverVars, pureVars, uiVars>>

\* transferUSDC throws with nothing posted: no global crypto in the runtime, or
\* the request never reaches the ledger
TransferThrows(amount, destinationWalletId) ==
    /\ Len(circle.sent) < MaxTransferCalls
    /\ circle' = [circle EXCEPT !.sent =
                      Append(@, [body |-> TransferBody(amount, destinationWalletId),
                                 idempotencyKey |-> NoKey, outcome |-> "threw"])]
    /\ UNCHANGED <<chainVars, serverVars, pureVars, uiVars>>

\* the transfers the ledger made with this body
TransfersOf(body) == {k \in DOMAIN circle.ledger : circle.ledger[k] = body}

ServerInit ==
    /\ reqs = [r \in Requests |-> IdleRequest]
    /\ agentRun = IdleRun

PureIdle ==
    /\ scoreIn = NoResult
    /\ scoreOut = NoResult
    /\ feeIn = 0
    /\ feeOut = NoResult

Init ==
    /\ ChainInit
    /\ ServerInit
    /\ PureIdle
    /\ UiInit
    /\ CircleInit

\* the escrow parties act on the contract and the owner may settle by hand
PartyStep ==
    \/ \E amount \in Amounts \ {0} : CreateEscrow("alice", "bob", amount)
    \/ Approve("alice", 2)
    \/ \E escrowId \in 0..(MaxEscrows - 1) : DepositFunds("alice", escrowId)
    \/ \E escrowId \in 0..(MaxEscrows - 1) : ReleasePayment(AGENT, escrowId)
    \/ \E escrowId \in 0..(MaxEscrows - 1) : ReturnFunds(AGENT, escrowId)

HandlerStep(r) ==
    \/ \E escrowId \in EscrowIdFields, sub \in Submissions, escrowAmount \in AmountFields :
           Receive(r, escrowId, sub, escrowAmount)
    \/ ReleaseThrows(r)
    \/ ReleaseSent(r)
    \/ ReleaseMined(r)
    \/ Respond(r)

\* a request from its arrival to its answer
RequestStep(r) ==
    \/ UploadRefused(r)
    \/ HandlerStep(r)

AgentStep ==
    \/ \E proofUrl \in ProofUrls, keysSet \in BOOLEAN : AgentVerify(proofUrl, keysSet)
    \/ \E succeeded \in BOOLEAN : AgentReleaseEnds(succeeded)

\* the escrow contract and the verification server
Next ==
    \/ PartyStep
    \/ \E r \in Requests : HandlerStep(r)

Spec == Init /\ [][Next]_vars

\* a client creates and funds the first escrow
FundingStep ==
    \/ escrowCounter = 0 /\ CreateEscrow("alice", "bob", 2)
    \/ allowance["alice"] = 0 /\ Approve("alice", 2)
    \/ DepositFunds("alice", 0)

\* the two verify-and-release flows
NextFlows ==
    \/ FundingStep
    \/ \E r \in Requests : RequestStep(r)
    \/ AgentStep

SpecFlows == Init /\ [][NextFlows]_vars

\* one funded escrow, the handlers, and the owner settling by hand
NextSettle ==
    \/ FundingStep
    \/ \E r \in Requests : RequestStep(r)
    \/ ReleasePayment(AGENT, 0)
    \/ ReturnFunds(AGENT, 0)

\* a handler that waits for the ledger is resumed: its call is answered or
\* fails, a transaction that was sent is executed, and its receipt arrives
HandlerFairness ==
    \A r \in Requests :
        /\ WF_vars(ReleaseThrows(r) \/ ReleaseSent(r))
        /\ WF_vars(ReleaseMined(r))
        /\ WF_vars(Respond(r))

SpecSettle == Init /\ [][NextSettle]_vars /\ HandlerFairness

\* what the server alone guarantees: its call to the node returns or throws and
\* a receipt that arrived is answered; nothing obliges the ledger to execute a
\* transaction that was sent
ServerFairness ==
    \A r \in Requests :
        /\ WF_vars(ReleaseThrows(r) \/ ReleaseSent(r))
        /\ WF_vars(Respond(r))

SpecWait == Init /\ [][NextSettle]_vars /\ ServerFairness

\* the contract alone: the users create and fund escrows with any arguments
\* (the freelancer may be any address, that of the contract included), and
\* every account calls the other operations on any id
NextContract ==
    \/ \E sender \in Users, freelancer \in Accounts \cup {CONTRACT, ZERO}, amount \in Amounts :
           CreateEscrow(sender, freelancer, amount)
    \/ \E sender \in Users, amount \in Amounts : Approve(sender, amount)
    \/ \E sender \in Accounts, escrowId \in EscrowIds : DepositFunds(sender, escrowId)
    \/ \E sender \in Accounts, escrowId \in EscrowIds : ReleasePayment(sender, escrowId)
    \/ \E sender \in Accounts, escrowId \in EscrowIds : ReturnFunds(sender, escrowId)

SpecContract == Init /\ [][NextContract]_vars

\* one funded escrow, settled by hand, and the owner's administration calls,
\* every call made by any account
NextAdmin ==
    \/ FundingStep
    \/ \E sender \in Accounts : ReleasePayment(sender, 0)
    \/ \E sender \in Accounts : ReturnFunds(sender, 0)
    \/ \E sender \in Accounts, to \in Accounts, amount \in Amounts :
           EmergencyWithdraw(sender, to, amount)
    \/ \E sender \in Accounts, newTokenAddress \in Tokens :
           SetTokenAddress(sender, newTokenAddress)
    \/ \E sender \in Accounts, newOwner \in Accounts \cup {ZERO} :
           TransferOwnership(sender, newOwner)

SpecAdmin == Init /\ [][NextAdmin]_vars

\* calls of transferUSDC
NextCircle ==
    \/ \E amount \in TransferAmounts, destinationWalletId \in WalletIds,
          uuid \in Uuids, answered \in BOOLEAN :
           transferUSDC(amount, destinationWalletId, uuid, answered)
    \/ \E amount \in TransferAmounts, destinationWalletId \in WalletIds :
           TransferThrows(amount, destinationWalletId)

SpecCircle == Init /\ [][NextCircle]_vars

\* the page alone: one user going through the workflow, with any backend
NextUi ==
    \/ \E text \in AmountTexts : SetEscrowAmount(text)
    \/ handleCreateEscrow
    \/ \E newEscrowId \in 1..MaxUiEscrowId : EscrowCreated(newEscrowId)
    \/ handleDeposit
    \/ FundsDeposited
    \/ handleFileUpload
    \/ \E nonBlank \in BOOLEAN : SetTaskDescription(nonBlank)
    \/ submitForVerification
    \/ \E answer \in BackendAnswers : BackendAnswered(answer)
    \/ \E failure \in BackendFailures : BackendFailed(failure)
    \/ \E isSuccess \in BOOLEAN : DemoVerification(isSuccess)
    \/ handleReleasePayment
    \/ PaymentReleased
    \/ handleReturnFunds
    \/ FundsReturned
    \/ resetEscrow

SpecUi == Init /\ [][NextUi]_vars

(***************************************************************************)
(* The verification of one submission, on every input of the families.     *)
(***************************************************************************)
ScoreInputs == [task : Descriptions, file : Files, escrowAmount : {35}]

RunVerifyTask ==
    /\ scoreIn # NoResult
    /\ scoreOut = NoResult
    /\ scoreOut' = verifyTask(scoreIn.task, scoreIn.file, scoreIn.escrowAmount)
    /\ UNCHANGED <<chainVars, serverVars, scoreIn, feeIn, feeOut, uiVars, circleVars>>

InitScore ==
    /\ ChainInit
    /\ ServerInit
    /\ scoreIn \in ScoreInputs
    /\ scoreOut = NoResult
    /\ feeIn = 0
    /\ feeOut = NoResult
    /\ UiInit
    /\ CircleInit

SpecScore == InitScore /\ [][RunVerifyTask]_vars

\* verifyTask on the submissions of the example scenarios A and B
InitScenario ==
    /\ ChainInit
    /\ ServerInit
    /\ scoreIn \in ScenarioInputs
    /\ scoreOut = NoResult
    /\ feeIn = 0
    /\ feeOut = NoResult
    /\ UiInit
    /\ CircleInit

SpecScenario == InitScenario /\ [][RunVerifyTask]_vars

\* two calls of the analysis, one after the other, on submissions that agree
\* in description, category, text content and size
SameForScoring(file, other) ==
    /\ getFileType(other.ext) = getFileType(file.ext)
    /\ ReadContent(other) = ReadContent(file)
    /\ other.size = file.size

RepeatInputs ==
    {<<in, [in EXCEPT !.file.ext = ext]>> :
        in \in ScenarioInputs, ext \in {".html", ".htm"}}

NoneAnalyzed == [results |-> <<>>, left |-> StartScore]

\* what a call adds to the results, and the accumulators it leaves
AfterCall(out, acc, fileType) ==
    [results |-> Append(out.results, Conclude(acc, fileType)), left |-> acc]

AnalyzeNext ==
    /\ scoreOut # NoResult
    /\ Len(scoreOut.results) < Len(scoreIn)
    /\ scoreOut' =
           AfterCall(scoreOut,
                     AccumulatorsAfter(scoreOut.left,
                                       scoreIn[Len(scoreOut.results) + 1].task.words,
                                       getFileType(scoreIn[Len(scoreOut.results) + 1].file.ext),
                                       ReadContent(scoreIn[Len(scoreOut.results) + 1].file),
                                       scoreIn[Len(scoreOut.results) + 1].file.size),
                     getFileType(scoreIn[Len(scoreOut.results) + 1].file.ext))
    /\ UNCHANGED <<chainVars, serverVars, scoreIn, feeIn, feeOut, uiVars, circleVars>>

InitRepeat ==
    /\ ChainInit
    /\ ServerInit
    /\ scoreIn \in RepeatInputs
    /\ scoreOut = NoneAnalyzed
    /\ feeIn = 0
    /\ feeOut = NoResult
    /\ UiInit
    /\ CircleInit

SpecRepeat == InitRepeat /\ [][AnalyzeNext]_vars

\* two files are classified, one after the other, by their extensions: those
\* of the table, .xml, one the table does not hold, and none
Extensions == DOMAIN typeMap \cup {".xml", ".exe", ""}

\* verifyTask's use of the two lookups: the category, and whether the content
\* is read as text
Classified(extension) ==
    [extension |-> extension, fileType |-> getFileType(extension),
     decoded |-> isTextFile(extension)]

ClassifyNext ==
    /\ Len(scoreOut) < Len(scoreIn)
    /\ scoreOut' = Append(scoreOut, Classified(scoreIn[Len(scoreOut) + 1]))
    /\ UNCHANGED <<chainVars, serverVars, scoreIn, feeIn, feeOut, uiVars, circleVars>>

InitClassify ==
    /\ ChainInit
    /\ ServerInit
    /\ scoreIn \in Extensions \X Extensions
    /\ scoreOut = <<>>
    /\ feeIn = 0
    /\ feeOut = NoResult
    /\ UiInit
    /\ CircleInit

SpecClassify == InitClassify /\ [][ClassifyNext]_vars

\* the submissions the rules are evaluated on in both orders: those that exist
\* and can be read
InitOrder ==
    /\ ChainInit
    /\ ServerInit
    /\ scoreIn \in {in \in ScoreInputs : ~in.task.empty /\ in.file \notin FaultyFiles}
    /\ scoreOut = NoResult
    /\ feeIn = 0
    /\ feeOut = NoResult
    /\ UiInit
    /\ CircleInit

\* the rules of one analysis, evaluated in source order and last to first
EffectsOf(in) ==
    Rules(in.task.words, getFileType(in.file.ext), ReadContent(in.file), in.file.size)

BothOrders(effects, fileType) ==
    [effects |-> effects,
     forward |-> ApplyFrom(StartScore, effects, Len(effects)),
     backward |-> ApplyFrom(StartScore, Backwards(effects), Len(effects)),
     fileType |-> fileType]

AnalyzeBothOrders ==
    /\ scoreOut = NoResult
    /\ scoreOut' = BothOrders(EffectsOf(scoreIn), getFileType(scoreIn.file.ext))
    /\ UNCHANGED <<chainVars, serverVars, scoreIn, feeIn, feeOut, uiVars, circleVars>>

SpecOrder == InitOrder /\ [][AnalyzeBothOrders]_vars

(***************************************************************************)
(* The fee calculation of the agent and of the frontend, on every amount.  *)
(***************************************************************************)
\* the largest escrow amount, in whole tokens, fees are computed for
MaxAmount == 100
FeeAmounts == (-1)..MaxAmount

\* calculateFees of App.jsx
calculateFees(amount) ==
    LET clientFee == FMulInt(amount, CLIENT_FEE)
        freelancerFee == FMulInt(amount, FREELANCER_FEE)
    IN  [none |-> FALSE,
         clientFee |-> clientFee,
         freelancerFee |-> freelancerFee,
         totalFees |-> FAdd(clientFee, freelancerFee),
         freelancerReceives |-> FSub(Num(amount), freelancerFee),
         clientPays |-> FAdd(Num(amount), clientFee),
         rawAmount |-> Num(amount)]

NotComputed == [pending |-> TRUE]

AgentFees ==
    /\ feeOut # NoResult
    /\ feeOut.agent = NotComputed
    /\ feeOut' = [feeOut EXCEPT !.agent = calculateFeeBreakdown(feeIn)]
    /\ UNCHANGED <<chainVars, serverVars, scoreIn, scoreOut, feeIn, uiVars, circleVars>>

FrontendFees ==
    /\ feeOut # NoResult
    /\ feeOut.ui = NotComputed
    /\ feeOut' = [feeOut EXCEPT !.ui = calculateFees(feeIn)]
    /\ UNCHANGED <<chainVars, serverVars, scoreIn, scoreOut, feeIn, uiVars, circleVars>>

InitFee ==
    /\ ChainInit
    /\ ServerInit
    /\ scoreIn = NoResult
    /\ scoreOut = NoResult
    /\ feeIn \in FeeAmounts
    /\ feeOut = [agent |-> NotComputed, ui |-> NotComputed]
    /\ UiInit
    /\ CircleInit

SpecFee == InitFee /\ [][AgentFees \/ FrontendFees]_vars

(***************************************************************************)
(* Properties of the escrow contract.                                      *)
(***************************************************************************)
Settled(e) == e.status \in {"Released", "Refunded"}

\* C1: whatever calls are made by whatever callers, no escrow has its funds both
\* paid to the freelancer and returned to the client: a Released escrow has paid
\* its amount to the freelancer only, a Refunded one to the client only, and any
\* other escrow has paid nothing.
C1_ReleasedOrRefundedNeverBoth ==
    \A escrowId \in DOMAIN escrows :
        LET e == escrows[escrowId]
            out == paid[escrowId]
        IN  /\ ~(out.freelancer > 0 /\ out.client > 0)
            /\ e.status = "Released" => out = [freelancer |-> e.amount, client |-> 0]
            /\ e.status = "Refunded" => out = [freelancer |-> 0, client |-> e.amount]
            /\ ~Settled(e) => out = [freelancer |-> 0, client |-> 0]

\* C1 witness: an escrow was refunded and the owner then called releasePayment on it
C1_ReleaseTriedAfterRefund ==
    /\ lastCall.op = "releasePayment"
    /\ lastCall.caller = owner
    /\ lastCall.result = "not in deposited state"
    /\ EscrowAt(escrows, lastCall.escrowId).status = "Refunded"
    /\ paid[lastCall.escrowId].client > 0

\* C4: a step changes the status of an escrow only from None to Deposited, from
\* Deposited to Released or from Deposited to Refunded, and a new escrow starts
\* in None; so the status never moves back and a settled escrow keeps its status.
C4_LegalTransitionsOnly ==
    [][ /\ \A escrowId \in DOMAIN escrows :
              escrows'[escrowId].status # escrows[escrowId].status
                  => <<escrows[escrowId].status, escrows'[escrowId].status>> \in
                         { <<"None", "Deposited">>, <<"Deposited", "Released">>,
                           <<"Deposited", "Refunded">> }
        /\ \A escrowId \in DOMAIN escrows' \ DOMAIN escrows :
              escrows'[escrowId].status = "None" ]_vars

\* C4 witness: one escrow is Released, another Refunded, and the client of a
\* settled escrow has just tried to deposit into it again
C4_DepositTriedOnSettled ==
    /\ \E i, j \in DOMAIN escrows :
           escrows[i].status = "Released" /\ escrows[j].status = "Refunded"
    /\ lastCall.op = "depositFunds"
    /\ Settled(EscrowAt(escrows, lastCall.escrowId))
    /\ lastCall.caller = EscrowAt(escrows, lastCall.escrowId).client
    /\ balances[lastCall.caller] >= EscrowAt(escrows, lastCall.escrowId).amount
    /\ allowance[lastCall.caller] >= EscrowAt(escrows, lastCall.escrowId).amount

\* C8: a depositFunds call succeeds only on an existing escrow in None and only
\* for its client; on an escrow that is not in None it fails with "already
\* deposited or completed" (AlreadyFunded), on an escrow in None called by another
\* account it fails with "only client can deposit" (Unauthorized), and a failed
\* call changes no escrow, no balance and no allowance.
C8_DepositGuards ==
    [][ (lastCall' # lastCall /\ lastCall'.op = "depositFunds") =>
            LET call == lastCall'
                e == EscrowAt(escrows, call.escrowId)
            IN  /\ call.result = "ok" =>
                       e.exists /\ e.status = "None" /\ call.caller = e.client
                /\ (e.exists /\ e.status # "None") =>
                       call.result = "already deposited or completed"
                /\ (e.exists /\ e.status = "None" /\ call.caller # e.client) =>
                       call.result = "only client can deposit"
                /\ call.result # "ok" => UNCHANGED <<escrows, balances, allowance, paid>>
      ]_vars

\* C8 witness: the client deposited, approved again, and the second depositFunds
\* on the same escrow has failed, the escrow holding what the first one paid in
C8_SecondDepositRejected ==
    /\ lastCall.op = "depositFunds"
    /\ lastCall.result = "already deposited or completed"
    /\ LET e == EscrowAt(escrows, lastCall.escrowId)
       IN  /\ e.status = "Deposited"
           /\ lastCall.caller = e.client
           /\ balances[CONTRACT] = e.amount
           /\ CanTransferFrom(e.client, e.amount)

(***************************************************************************)
(* Properties of the verify-and-release flows.                             *)
(***************************************************************************)
\* the escrow a request's release call names
Target(r) == releaseParam(reqs[r].escrowId)

\* C2: settling again fails and changes nothing.  Every escrow has sent out
\* nothing before it is settled and exactly its amount once it is; and a release
\* or refund called on a settled escrow, by the owner directly or by the
\* transaction releaseFunds of blockchain.js sent, does not succeed and leaves
\* every escrow record and every balance as it was.
C2_SettlementIdempotent ==
    /\ [](\A escrowId \in DOMAIN escrows :
              paid[escrowId].freelancer + paid[escrowId].client =
                  IF Settled(escrows[escrowId]) THEN escrows[escrowId].amount ELSE 0)
    /\ [][ /\ (/\ lastCall' # lastCall
               /\ lastCall'.op \in {"releasePayment", "returnFunds"}
               /\ Settled(EscrowAt(escrows, lastCall'.escrowId)))
              => /\ lastCall'.result # "ok"
                 /\ UNCHANGED <<escrows, balances, paid>>
           /\ \A r \in Requests :
                  (/\ reqs[r].pc = "pending"
                   /\ reqs'[r].pc = "confirmed"
                   /\ Settled(EscrowAt(escrows, Target(r))))
                  => /\ reqs'[r].receipt # "ok"
                     /\ UNCHANGED <<escrows, balances, paid>> ]_vars

\* C2 witness: after a release that succeeded, the release transaction of a
\* request for the same escrow was executed and failed, and the owner's direct
\* releasePayment on it failed as well; the freelancer was paid once
C2_SecondReleaseFailed ==
    /\ \E r \in Requests :
           /\ reqs[r].receipt = "not in deposited state"
           /\ EscrowAt(escrows, Target(r)).status = "Released"
           /\ paid[Target(r)].freelancer = escrows[Target(r)].amount
           /\ lastCall.op = "releasePayment"
           /\ lastCall.escrowId = Target(r)
           /\ lastCall.result = "not in deposited state"
    /\ balances[CONTRACT] > 0

\* C3: a release call is issued to the ledger only by a request whose own
\* verification returned verified: a handler that issued the call holds a
\* verified result, a run of verifyAgent's verifyTask that issued it passed its
\* verification, and no request is waiting for the ledger without a verified
\* result.
C3_NoReleaseBeforeVerification ==
    /\ \A r \in Requests :
           (reqs[r].issued \/ InFlight(r)) =>
               (reqs[r].result # NoResult /\ reqs[r].result.verified)
    /\ (agentRun.issued \/ agentRun.pc = "releasing") => agentRun.passed

\* C3 witness: one request was verified and its release confirmed, another was
\* rejected without a ledger call, and verifyAgent rejected a proof without one
C3_VerifiedAndRejectedRequests ==
    /\ \E r, q \in Requests :
           /\ reqs[r].response = "VERIFIED" /\ reqs[r].issued
           /\ reqs[q].response = "REJECTED" /\ ~reqs[q].issued
    /\ agentRun.status = "REJECTED" /\ ~agentRun.issued

\* C9: two requests carrying the same escrowId are never both between the start
\* of their scoring and the completion of their release call.
C9_RequestsSerialized ==
    \A r, q \in Requests :
        (r # q /\ InFlight(r) /\ InFlight(q)) => reqs[r].escrowId # reqs[q].escrowId

\* C10: once a request that named a deposited escrow is answered REJECTED, the
\* escrow becomes Refunded.
C10_RejectionRefunds ==
    \A r \in Requests :
        (reqs[r].response = "REJECTED" /\ reqs[r].funded)
            ~> (EscrowAt(escrows, Target(r)).status = "Refunded")

\* the release call of request q failed after its verdict was verified
ReleaseFailed(q) ==
    reqs[q].pc = "done" /\ reqs[q].issued /\ reqs[q].response = "ERROR"

\* C11: after the release call of a verified request failed, the release is
\* retried for the same escrow by the settlement step alone: the step in which
\* a later request issues the release call for that escrow runs no scoring, it
\* leaves the request's verdict as it was.
C11_RetryWithoutScoring ==
    [][ \A q, r \in Requests :
            (/\ q # r
             /\ ReleaseFailed(q)
             /\ ~reqs[r].issued
             /\ reqs'[r].issued
             /\ reqs'[r].escrowId = reqs[q].escrowId)
            => reqs'[r].result = reqs[r].result ]_vars

\* C12: a request never waits indefinitely for its release call: one that
\* waits for the ledger is answered in the end, whether the ledger executes its
\* transaction or not.
C12_WaitingRequestIsAnswered ==
    \A r \in Requests :
        (reqs[r].pc \in {"releasing", "pending"}) ~> (reqs[r].pc = "done")

\* C13: a VERIFIED answer is given only after the ledger confirmed the release
\* of the request's escrow, and a release call that failed is answered ERROR:
\* a request answered VERIFIED has success = true, a receipt of a release that
\* succeeded and its escrow Released; a finished request whose release call did
\* not succeed is answered ERROR; the same for a run of verifyAgent's verifyTask.
C13_VerifiedOnlyAfterConfirmedRelease ==
    /\ \A r \in Requests :
           /\ reqs[r].response = "VERIFIED" =>
                  /\ reqs[r].success
                  /\ reqs[r].receipt = "ok"
                  /\ EscrowAt(escrows, Target(r)).status = "Released"
           /\ (reqs[r].pc = "done" /\ reqs[r].issued /\ reqs[r].receipt # "ok") =>
                  (reqs[r].response = "ERROR" /\ ~reqs[r].success)
    /\ agentRun.status = "VERIFIED" => agentRun.receipt = "ok"
    /\ (agentRun.pc = "done" /\ agentRun.issued /\ agentRun.receipt # "ok") =>
           agentRun.status = "ERROR"

\* C13 witness: one request was answered VERIFIED after its release was
\* confirmed, the release of another was executed and reverted and it was
\* answered ERROR, and the release call of verifyAgent failed and it returned ERROR
C13_VerifiedAndFailedReleases ==
    /\ \E r, q \in Requests :
           /\ reqs[r].response = "VERIFIED" /\ reqs[r].receipt = "ok"
           /\ reqs[q].response = "ERROR" /\ reqs[q].receipt = "not in deposited state"
    /\ agentRun.status = "ERROR" /\ agentRun.receipt = "failed"

\* C14: a request is answered exactly once, when it is finished, and never
\* before or again; the answer's (success, status) is (false, REJECTED),
\* (true, VERIFIED) or (false, ERROR), so success is true iff status is VERIFIED.
C14_OneResponsePerRequest ==
    \A r \in Requests :
        /\ reqs[r].responses = (IF reqs[r].pc = "done" THEN 1 ELSE 0)
        /\ reqs[r].responses > 0 =>
               /\ <<reqs[r].success, reqs[r].response>> \in
                      { <<FALSE, "REJECTED">>, <<TRUE, "VERIFIED">>, <<FALSE, "ERROR">> }
               /\ reqs[r].success <=> reqs[r].response = "VERIFIED"

\* C14 witness: a request was answered (true, VERIFIED) by the handler and
\* another (false, ERROR) by the error middleware, each once
C14_HandlerAndMiddlewareAnswers ==
    \E r, q \in Requests :
        /\ reqs[r].responses = 1 /\ reqs[r].success /\ reqs[r].response = "VERIFIED"
        /\ reqs[q].responses = 1 /\ reqs[q].result = NoResult /\ reqs[q].response = "ERROR"

\* the request the handler received lacks its escrowId, its task description
\* or its file
MissingInput(r) ==
    /\ reqs[r].result # NoResult
    /\ \/ ~reqs[r].escrowId.present
       \/ reqs[r].result.feedback = "Missing task description or file"

\* C15: a request that lacks a required input ends without a release call and
\* without a change of any escrow: the handler never issues the release call for
\* it, and no step taken for it changes an escrow.
C15_MissingInputIsTerminal ==
    /\ [](\A r \in Requests : MissingInput(r) => ~reqs[r].issued)
    /\ [][ \A r \in Requests :
               (MissingInput(r) /\ reqs'[r] # reqs[r]) => UNCHANGED escrows ]_vars

C5_VerdictMatchesReturnedScore ==
    scoreOut # NoResult =>
        (scoreOut.verified <=>
            (FGeq(scoreOut.confidenceScore, Lit(60)) /\ Len(scoreOut.issues) <= 3))

\* C16: a file that is missing, cannot be found or cannot be read gives a
\* result with verified = false.
C16_UnavailableFileIsRejected ==
    (/\ scoreOut # NoResult
     /\ \/ ~scoreIn.file.given
        \/ ~scoreIn.file.exists
        \/ scoreIn.file.fault # "none")
    => ~scoreOut.verified

\* C6: the confidenceScore of every result verifyTask returns is at least 0 and
\* at most 1.
C6_ScoreInUnitInterval ==
    scoreOut # NoResult =>
        (FGeq(scoreOut.confidenceScore, Num(0)) /\ FGeq(Num(1), scoreOut.confidenceScore))

\* the score the rules leave for the input, before it is clamped
RawScore(in) ==
    ApplyRules(in.task.words, getFileType(in.file.ext), ReadContent(in.file), in.file.size).score

\* C6 witness: the rules took the score of an analysed submission below 0 and
\* the result carries 0
C6_NegativeScoreClamped ==
    /\ scoreOut # NoResult
    /\ scoreOut.fileType # "unknown"
    /\ FLt(RawScore(scoreIn), Num(0))
    /\ scoreOut.confidenceScore = Num(0)

\* the number x in the smallest units of the 6-decimal token, rounded to the
\* nearest unit: a hundredth is 10^4 units, and the residue e, an integer below
\* 2^31 counted in units of 2^-SCALE / 100, is far less than half a unit
ToUnits(x) == x.k * (10 ^ 4)

\* the fee breakdown fb of amount a is exact in smallest units
ExactFees(a, fb) ==
    /\ ~fb.none
    /\ ToUnits(fb.clientFee) = a * CLIENT_FEE.k * (10 ^ 4)
    /\ ToUnits(fb.freelancerFee) = a * FREELANCER_FEE.k * (10 ^ 4)
    /\ ToUnits(fb.clientPays) = a * (10 ^ 6) + a * CLIENT_FEE.k * (10 ^ 4)
    /\ ToUnits(fb.freelancerReceives) = a * (10 ^ 6) - a * FREELANCER_FEE.k * (10 ^ 4)
    /\ fb.rawAmount = Num(a)

\* C7: for every amount a > 0 the breakdown the agent computes and the one the
\* frontend computes have, in the token's smallest units, clientFee = a * rc,
\* freelancerFee = a * rf, clientPays = a + a * rc, freelancerReceives = a - a * rf,
\* and rawAmount = a.
C7_FeesExactInSmallestUnits ==
    feeIn > 0 =>
        /\ feeOut.agent # NotComputed => ExactFees(feeIn, feeOut.agent)
        /\ feeOut.ui # NotComputed => ExactFees(feeIn, feeOut.ui)

\* C7 witness: both breakdowns of the amount 35 are computed; their clientFee is
\* not the number nearest to 0.35, yet it is 350000 units
C7_FeesOfThirtyFive ==
    /\ feeIn = 35
    /\ feeOut.agent # NotComputed
    /\ feeOut.ui # NotComputed
    /\ feeOut.agent.clientFee # Lit(35)
    /\ ToUnits(feeOut.agent.clientFee) = 350000

\* C18: when a request is answered VERIFIED with a fee breakdown computed for
\* the escrow's amount, the tokens its release sent to the freelancer are the
\* breakdown's freelancerReceives (rawAmount - freelancerFee), in smallest units.
C18_FreelancerPaidNetOfFee ==
    \A r \in Requests :
        (/\ reqs[r].response = "VERIFIED"
         /\ ~reqs[r].result.feeBreakdown.none
         /\ reqs[r].result.feeBreakdown.rawAmount = Num(escrows[Target(r)].amount))
        => paid[Target(r)].freelancer * (10 ^ 6) =
               ToUnits(reqs[r].result.feeBreakdown.freelancerReceives)

(***************************************************************************)
(* Properties of the amounts escrows are created and funded with.          *)
(***************************************************************************)
\* every escrow of the contract that is Deposited has a positive amount
DepositedAmountPositive ==
    \A escrowId \in DOMAIN escrows :
        escrows[escrowId].status = "Deposited" => escrows[escrowId].amount > 0

\* C19: an escrow is created and funded with a positive amount only: every
\* Deposited escrow of the contract has amount > 0, an escrow the page has
\* created and not yet funded has a positive amount entered, and an escrow the
\* page has funded has a positive balance.
C19_FundedAmountPositive ==
    /\ DepositedAmountPositive
    /\ (ui.escrowId # Null /\ ui.aiAgentStatus = "PENDING") =>
           GtZero(parseFloat(ui.escrowAmount))
    /\ ui.aiAgentStatus = "AWAITING_SUBMISSION" => GtZero(ui.escrowBalance)

(***************************************************************************)
(* Properties of createEscrow's checks of the parties.                     *)
(***************************************************************************)
\* the revert reasons of createEscrow that name an invalid party
InvalidParty == {"invalid freelancer", "client and freelancer cannot be the same"}

\* the freelancer argument is absent or is the caller
BadFreelancer(sender, freelancer) == freelancer = ZERO \/ freelancer = sender

\* createEscrow(freelancer, amount) called by sender creates nothing
CreatesNoEscrow == escrows' = escrows /\ escrowCounter' = escrowCounter

\* a successful createEscrow stores a new escrow in status None and moves no tokens
CreatesNoneEscrow(sender, freelancer) ==
    /\ freelancer # ZERO
    /\ freelancer # sender
    /\ escrowCounter \notin DOMAIN escrows
    /\ escrowCounter' = escrowCounter + 1
    /\ EscrowAt(escrows', escrowCounter).exists
    /\ EscrowAt(escrows', escrowCounter).status = "None"
    /\ \A escrowId \in DOMAIN escrows : escrows'[escrowId] = escrows[escrowId]
    /\ balances' = balances
    /\ allowance' = allowance

\* C20 as stated: createEscrow succeeds only with a freelancer that is present
\* and distinct from the caller; with any other freelancer it fails with
\* InvalidParty and creates no escrow; on success the new escrow is in status
\* None and no tokens have moved.
C20_BadFreelancerIsInvalidParty ==
    [][ \A sender \in Users, freelancer \in Accounts \cup {ZERO}, amount \in Amounts :
            CreateEscrow(sender, freelancer, amount) =>
                /\ lastCall'.result = "ok" => CreatesNoneEscrow(sender, freelancer)
                /\ BadFreelancer(sender, freelancer) =>
                       lastCall'.result \in InvalidParty /\ CreatesNoEscrow ]_vars

\* C20 amended: createEscrow succeeds only with a freelancer that is present
\* and distinct from the caller; with any other freelancer it fails and
\* creates no escrow, and the failure is InvalidParty when the freelancer is
\* absent or the amount is positive (a caller naming itself with amount 0 is
\* refused for the amount, which is checked first); on success the new escrow
\* is in status None and no tokens have moved.
C20_BadFreelancerCreatesNothing ==
    [][ \A sender \in Users, freelancer \in Accounts \cup {ZERO}, amount \in Amounts :
            CreateEscrow(sender, freelancer, amount) =>
                /\ lastCall'.result = "ok" => CreatesNoneEscrow(sender, freelancer)
                /\ BadFreelancer(sender, freelancer) =>
                       lastCall'.result # "ok" /\ CreatesNoEscrow
                /\ (freelancer = ZERO \/ (freelancer = sender /\ amount > 0)) =>
                       lastCall'.result \in InvalidParty
                /\ (freelancer = sender /\ freelancer # ZERO /\ amount = 0) =>
                       lastCall'.result = "amount must be greater than 0" ]_vars

\* one escrow was created in status None and a caller naming itself as the
\* freelancer has then been refused
C20_CreatedThenSamePartyRefused ==
    /\ escrowCounter = 1
    /\ EscrowAt(escrows, 0).status = "None"
    /\ lastCall.op = "createEscrow"
    /\ lastCall.result = "client and freelancer cannot be the same"

(***************************************************************************)
(* Properties of the fee calculation on amounts that are not positive.     *)
(***************************************************************************)
\* the call ended by throwing an error of this kind instead of returning
Threw(outcome, kind) == "error" \in DOMAIN outcome /\ outcome.error = kind

\* C21: for every amount <= 0 the agent's fee calculation fails with an
\* InvalidAmount error instead of returning, and whatever it returns is never
\* a fee breakdown whose rawAmount is not positive.
C21_NonPositiveAmountIsInvalidAmount ==
    feeOut.agent # NotComputed =>
        /\ feeIn <= 0 => Threw(feeOut.agent, "InvalidAmount")
        /\ (~Threw(feeOut.agent, "InvalidAmount") /\ ~feeOut.agent.none) =>
               FLt(Num(0), feeOut.agent.rawAmount)

(***************************************************************************)
(* Properties of the transfers of circleClient.js.                         *)
(***************************************************************************)
\* C22: however often transferUSDC is invoked with the same amount and
\* destinationWalletId (a retry after a lost response, say), the ledger, which
\* makes one transfer per idempotencyKey, has made at most one transfer of that
\* amount to that wallet.
C22_SameTransferAtMostOnce ==
    \A amount \in TransferAmounts, destinationWalletId \in WalletIds :
        Cardinality(TransfersOf(TransferBody(amount, destinationWalletId))) <= 1

(***************************************************************************)
(* Properties of the example scenarios of the scoring.                     *)
(***************************************************************************)
\* scenario A or B was scored
ScoredA == scoreIn.task = ScenarioADescription /\ scoreOut # NoResult
ScoredB == scoreIn.task = ScenarioBDescription /\ scoreOut # NoResult

Between(x, lo, hi) == FGeq(x, lo) /\ FGeq(hi, x)

IssuesOf(r) == {r.issues[i] : i \in DOMAIN r.issues}
StrengthsOf(r) == {r.strengths[i] : i \in DOMAIN r.strengths}

\* C23 as stated: scenario A (the description 'Build a responsive landing page
\* with a contact form' and a webpage holding a <form marker, a viewport marker
\* and all of doctype/html/head/body/title), whatever else the page holds and
\* whatever its size, is scored between 0.95 and 1.0 and verified.
C23_ScenarioAScoredAtLeast95 ==
    ScoredA => /\ Between(scoreOut.confidenceScore, Lit(95), Num(1))
               /\ scoreOut.verified

\* C23 amended: scenario A, whatever else the page holds and whatever its size,
\* is scored between 0.8 and 1.0 and verified, with at most two issues; the
\* score is below 0.95 only for a page of less than 100 bytes or one that names
\* no contact, email or phone, and it is 1.0 for every other page.
C23_ScenarioAScoredAtLeast80 ==
    ScoredA =>
        /\ Between(scoreOut.confidenceScore, Lit(80), Num(1))
        /\ scoreOut.verified
        /\ Len(scoreOut.issues) <= 2
        /\ (scoreIn.file.size >= 100 /\
            scoreIn.file.tokens \cap {"contact", "email", "phone"} # {})
               => scoreOut.confidenceScore = Num(1)
        /\ FLt(scoreOut.confidenceScore, Lit(95)) =>
               \/ scoreIn.file.size < 100
               \/ scoreIn.file.tokens \cap {"contact", "email", "phone"} = {}

\* a page of scenario A, smaller than 100 bytes and naming no contact, was
\* scored 0.8 and verified
C23_SmallPageWithoutContactScored80 ==
    /\ ScoredA
    /\ scoreIn.file.size < 100
    /\ scoreIn.file.tokens \cap {"contact", "email", "phone"} = {}
    /\ scoreOut.confidenceScore = Lit(80)
    /\ scoreOut.verified

\* the issue of the video rule, and the issues of the two size rules
VideoMismatch == "Description mentions video but submitted file is not a video file"
Undersized == {"Video file seems too small for a complete video (less than 1MB)",
               "Webpage file seems too small to contain meaningful content"}

\* C24 as stated: scenario B (the description 'Create a 2-minute demo video'
\* and a webpage of 800 bytes), whatever the page holds, has the category
\* mismatch among its issues and an undersized penalty, is scored at most 0.2
\* and is not verified.
C24_ScenarioBScoredAtMost20 ==
    ScoredB =>
        /\ VideoMismatch \in IssuesOf(scoreOut)
        /\ IssuesOf(scoreOut) \cap Undersized # {}
        /\ FGeq(Lit(20), scoreOut.confidenceScore)
        /\ ~scoreOut.verified

\* C24 amended: scenario B, whatever the page holds, has the category mismatch
\* among its issues and is not verified; no size rule penalises it (800 bytes
\* are more than the 500 the webpage size rule rewards), and it is scored
\* between 0 and 0.5: above 0.2 for every page that holds all five structure
\* tags, at most 0.2 for every page that holds none of the rewarded markers
\* and lacks a structure tag.
C24_ScenarioBMismatchNotVerified ==
    ScoredB =>
        /\ VideoMismatch \in IssuesOf(scoreOut)
        /\ ~scoreOut.verified
        /\ IssuesOf(scoreOut) \cap Undersized = {}
        /\ "Substantial webpage content provided" \in StrengthsOf(scoreOut)
        /\ Between(scoreOut.confidenceScore, Num(0), Lit(50))
        /\ StructureTags \subseteq scoreIn.file.tokens =>
               FLt(Lit(20), scoreOut.confidenceScore)
        /\ (scoreIn.file.tokens \subseteq StructureTags /\
            scoreIn.file.tokens # StructureTags) =>
               FGeq(Lit(20), scoreOut.confidenceScore)

\* a complete, closed and commented page of scenario B was scored 0.5, with the
\* mismatch as its only issue, and not verified
C24_CompletePageScored50 ==
    /\ ScoredB
    /\ scoreOut.issues = <<VideoMismatch>>
    /\ scoreOut.confidenceScore = Lit(50)
    /\ ~scoreOut.verified

(***************************************************************************)
(* Properties of repeated scoring.                                         *)
(***************************************************************************)
\* what of a result the claim compares
Scored(r) == <<r.confidenceScore, r.issues, r.strengths, r.verified>>

Categories == {"video", "webpage", "javascript", "stylesheet", "data", "text",
               "document", "archive", "image", "unknown"}

\* the files classified so far
ClassifiedFiles == {scoreOut[i] : i \in DOMAIN scoreOut}

\* C26 as stated: every file's category is one of the ten enumerated
\* categories, an extension that is not in the table gives unknown, and whether
\* the content is decoded as text is a function of the category.
C26_DecodingFollowsCategory ==
    /\ \A f \in ClassifiedFiles :
           /\ f.fileType \in Categories
           /\ f.extension \notin DOMAIN typeMap => f.fileType = "unknown"
    /\ \A f, g \in ClassifiedFiles : f.fileType = g.fileType => f.decoded = g.decoded

\* C26 amended: every file's category is one of the ten enumerated categories
\* or markdown (.md) or spreadsheet (.csv), an extension that is not in the
\* table gives unknown, and whether the content is decoded as text is a
\* function of the extension: it is a function of the category for every
\* category but unknown, where .xml is decoded and no other extension is;
\* the decoded categories are webpage, javascript, stylesheet, data, text,
\* markdown and spreadsheet.
C26_DecodingFollowsExtension ==
    /\ \A f \in ClassifiedFiles :
           /\ f.fileType \in Categories \cup {"markdown", "spreadsheet"}
           /\ f.fileType = "markdown" <=> f.extension = ".md"
           /\ f.fileType = "spreadsheet" <=> f.extension = ".csv"
           /\ f.extension \notin DOMAIN typeMap => f.fileType = "unknown"
           /\ f.fileType = "unknown" => (f.decoded <=> f.extension = ".xml")
           /\ f.fileType # "unknown" =>
                  (f.decoded <=> f.fileType \in {"webpage", "javascript", "stylesheet", "data",
                                                 "text", "markdown", "spreadsheet"})
    /\ \A f, g \in ClassifiedFiles :
           /\ f.extension = g.extension => f = g
           /\ (f.fileType = g.fileType /\ f.fileType # "unknown") => f.decoded = g.decoded

\* an .xml file and an .exe file were classified: both are unknown, and only
\* the .xml file is decoded
C26_XmlDecodedExeNot ==
    /\ Len(scoreOut) = 2
    /\ scoreOut[1] = [extension |-> ".xml", fileType |-> "unknown", decoded |-> TRUE]
    /\ scoreOut[2] = [extension |-> ".exe", fileType |-> "unknown", decoded |-> FALSE]

(***************************************************************************)
(* Properties of the fee rates.                                            *)
(***************************************************************************)
\* C27: in every fee breakdown the agent computes, the platform's total fee is
\* 1% of the escrow amount, half of it (0.5%) charged to the client and half
\* (0.5%) deducted from the freelancer: in smallest units, totalFees is
\* rawAmount * 10^4, and twice each party's fee is the same.
C27_TotalFeeIsOnePercent ==
    (feeOut.agent # NotComputed /\ ~feeOut.agent.none) =>
        /\ ToUnits(feeOut.agent.totalFees) = feeIn * (10 ^ 4)
        /\ 2 * ToUnits(feeOut.agent.clientFee) = feeIn * (10 ^ 4)
        /\ 2 * ToUnits(feeOut.agent.freelancerFee) = feeIn * (10 ^ 4)

(***************************************************************************)
(* Properties of the workflow of the page.                                 *)
(***************************************************************************)
\* the steps the page shows with a status
StepsOf(status) ==
    IF status = "PENDING" THEN {1, 2}
    ELSE IF status \in {"AWAITING_SUBMISSION", "ANALYZING", "ERROR"} THEN {3}
    ELSE IF status = "VERIFIED" THEN {4}
    ELSE IF status = "REJECTED" THEN {5}
    ELSE IF status \in {"RELEASED", "RETURNED"} THEN {6}
    ELSE {}

\* C28: in every state of the page currentStep is determined by the status:
\* steps 1 and 2 go with PENDING and only with it, step 3 with
\* AWAITING_SUBMISSION, ANALYZING and ERROR, step 4 with VERIFIED, step 5 with
\* REJECTED, step 6 with RELEASED and RETURNED.
C28_StepFollowsStatus ==
    /\ ui.currentStep \in 1..6
    /\ ui.currentStep \in StepsOf(ui.aiAgentStatus)

\* a rejected submission is at step 5 while its funds are being returned,
\* after a session that went through steps 1, 2 and 3
C28_ReturningAtStepFive ==
    /\ ui.aiAgentStatus = "REJECTED"
    /\ ui.currentStep = 5
    /\ ui.job.op = "return"
    /\ ui.answer = "REJECTED"

\* C29: a release is started only when the status is VERIFIED and a return
\* only when it is REJECTED; the status becomes RELEASED only from VERIFIED
\* and RETURNED only from REJECTED; and between two resets the page never
\* shows both RELEASED and RETURNED.
C29_ReleaseOnlyVerifiedReturnOnlyRejected ==
    /\ [](Cardinality(ui.settled) <= 1)
    /\ [][ /\ (ui'.job.op = "release" /\ ui.job.op # "release") =>
                  ui.aiAgentStatus = "VERIFIED"
           /\ (ui'.job.op = "return" /\ ui.job.op # "return") =>
                  ui.aiAgentStatus = "REJECTED"
           /\ (ui'.aiAgentStatus = "RELEASED" /\ ui.aiAgentStatus # "RELEASED") =>
                  ui.aiAgentStatus = "VERIFIED"
           /\ (ui'.aiAgentStatus = "RETURNED" /\ ui.aiAgentStatus # "RETURNED") =>
                  ui.aiAgentStatus = "REJECTED" ]_vars

\* the payment of a verified submission was released
C29_ReleasedAfterVerified ==
    /\ ui.aiAgentStatus = "RELEASED"
    /\ ui.settled = {"RELEASED"}
    /\ ui.currentStep = 6

\* C30: the status is VERIFIED only when the backend answered the current
\* submission with success = true and status VERIFIED; when the backend was
\* unreachable or answered with an error the status is not VERIFIED, so that
\* the release button stays disabled.
C30_VerifiedOnlyByBackend ==
    /\ ui.aiAgentStatus = "VERIFIED" => ui.answer = "VERIFIED"
    /\ ui.answer \in BackendFailures => isReleaseDisabled

(***************************************************************************)
(* Properties of the rule table.                                           *)
(***************************************************************************)
\* the entries of a list, as a bag
BagOf(list) == [x \in {list[i] : i \in DOMAIN list} |->
                   Cardinality({i \in DOMAIN list : list[i] = x})]

\* what the result of an analysis carries, the lists without their order
Outcome(acc) ==
    [confidenceScore |-> RoundTo2(Clamp(acc.score)),
     verified |-> Verdict(Clamp(acc.score), acc.issues),
     issues |-> BagOf(acc.issues),
     strengths |-> BagOf(acc.strengths)]

\* C31: the score the rules leave is 0.7 plus the sum of the deltas of the
\* rules that fired (in hundredths, before clamping), every penalty has added
\* one entry to issues and every reward one entry to strengths, and evaluating
\* the rules in another order (last to first) gives the same confidenceScore,
\* the same verified and the same issues and strengths.
C31_RulesAddUpInAnyOrder ==
    scoreOut # NoResult =>
        /\ scoreOut.forward.score.k =
               70 + SumOfDeltas(scoreOut.effects, Len(scoreOut.effects))
        /\ Len(scoreOut.forward.issues) = Cardinality(PenaltiesOf(scoreOut.effects))
        /\ Len(scoreOut.forward.strengths) = Cardinality(RewardsOf(scoreOut.effects))
        /\ Outcome(scoreOut.forward) = Outcome(scoreOut.backward)

(* The neutral prior. *)
\* categories no rule of analyzeSubmission looks at
RulelessCategories == {"unknown", "archive"}

\* submissions no rule applies to: a description without rule keywords and a
\* readable file of a category without rules
Ruleless(task, file) ==
    /\ ~task.empty /\ task.words = {}
    /\ file.given /\ file.exists /\ file.fault = "none"
    /\ getFileType(file.ext) \in RulelessCategories

\* the result is the neutral prior: 0.7, nothing found, verified
NeutralResult(result) ==
    /\ result.confidenceScore = Lit(70)
    /\ result.issues = <<>>
    /\ result.strengths = <<>>
    /\ result.verified

\* verifyTask gives the neutral prior for every input no rule applies to
RulelessAreNeutral ==
    \A in \in ScoreInputs :
        Ruleless(in.task, in.file) =>
            NeutralResult(verifyTask(in.task, in.file, in.escrowAmount))

\* C32: when no rule applies (description without rule keywords, category
\* unknown or archive) verifyTask returns confidenceScore 0.7 with no issues
\* and no strengths and verified = true, and the handler of
\* /verify-and-release that receives such a submission does not answer
\* REJECTED but goes on to call releaseFunds for the escrow of the request.
C32_NoRuleAppliesThenRelease ==
    [][/\ RulelessAreNeutral
       /\ \A r \in Requests, escrowId \in EscrowIdFields, sub \in Submissions,
             escrowAmount \in AmountFields :
              (Receive(r, escrowId, sub, escrowAmount) /\ Ruleless(sub.task, sub.file)) =>
                  /\ NeutralResult(reqs'[r].result)
                  /\ reqs'[r].pc = "releasing"
                  /\ reqs'[r].issued
                  /\ reqs'[r].escrowId = escrowId
                  /\ reqs'[r].responses = 0]_vars

\* a request with the neutral result whose release was mined and answered VERIFIED
C32_NeutralResultReleased ==
    \E r \in Requests :
        /\ reqs[r].result # NoResult
        /\ NeutralResult(reqs[r].result)
        /\ reqs[r].result.fileType = "unknown"
        /\ reqs[r].funded
        /\ reqs[r].response = "VERIFIED"
        /\ 0 \in DOMAIN paid
        /\ paid[0].freelancer = 2

(* Two requests for the same escrow. *)
\* r and q are two requests for the same escrow, Deposited when each arrived,
\* and both were verified: their handlers run the release concurrently
Racing(r, q) ==
    /\ r # q
    /\ reqs[r].result # NoResult /\ reqs[r].result.verified /\ reqs[r].funded
    /\ reqs[q].result # NoResult /\ reqs[q].result.verified /\ reqs[q].funded
    /\ Target(r) = Target(q)

\* the handler of r has ended after its release transaction was executed
Executed(r) == reqs[r].pc = "done" /\ reqs[r].receipt # "none"

RECURSIVE DepositedTotal(_)
DepositedTotal(n) ==
    IF n = 0 THEN 0
    ELSE DepositedTotal(n - 1) +
         (IF escrows[n - 1].status = "Deposited" THEN escrows[n - 1].amount ELSE 0)

\* escrow i goes from Deposited to status in this step
Settles(i, status) ==
    /\ i \in DOMAIN escrows
    /\ escrows[i].status = "Deposited"
    /\ escrows'[i].status = status

\* in this step the contract sends amount tokens to the account to, and no other
\* balance changes
TransfersTo(to, amount) ==
    /\ balances'[CONTRACT] = balances[CONTRACT] - amount
    /\ balances'[to] = balances[to] + amount
    /\ \A a \in (Accounts \cup {CONTRACT}) \ {CONTRACT, to} : balances'[a] = balances[a]

\* C34: under createEscrow, depositFunds, releasePayment and returnFunds the
\* token balance of the contract always equals the sum of the amounts of the
\* escrows whose status is Deposited, and a step that settles an escrow moves
\* exactly the amount of that escrow from the contract to one account: the
\* freelancer when the escrow becomes Released, the client when it becomes
\* Refunded; no other balance changes.
C34_ContractHoldsDepositedAmounts ==
    /\ [](balances[CONTRACT] = DepositedTotal(escrowCounter))
    /\ [][\A i \in EscrowIds :
             /\ Settles(i, "Released") => TransfersTo(escrows[i].freelancer, escrows[i].amount)
             /\ Settles(i, "Refunded") => TransfersTo(escrows[i].client, escrows[i].amount)]_vars

(* The owner's administration calls. *)
\* the current owner's releasePayment and returnFunds on escrowId would succeed
OwnerCanSettle(escrowId) ==
    /\ releasePaymentResult(owner, escrowId) = "ok"
    /\ returnFundsResult(owner, escrowId) = "ok"

\* C35: whatever calls were made before, emergencyWithdraw, setTokenAddress and
\* transferOwnership included, for every escrow whose status is Deposited a
\* releasePayment and a returnFunds called by the current owner succeed: the
\* contract holds enough of the escrow token to pay the escrow.
C35_DepositedEscrowsStayPayable ==
    \A escrowId \in DOMAIN escrows :
        escrows[escrowId].status = "Deposited" => OwnerCanSettle(escrowId)

\* C36: only the owner of the contract settles an escrow.  A releasePayment or
\* returnFunds called by an address that is not the current owner, the client
\* and the freelancer of the escrow included, fails with "only owner" and
\* leaves every escrow and every balance unchanged; and a step in which an
\* escrow goes from Deposited to Released or Refunded is a call made by the
\* owner.
C36_OnlyOwnerSettles ==
    [][/\ \A sender \in Accounts, escrowId \in EscrowIds :
              ((ReleasePayment(sender, escrowId) \/ ReturnFunds(sender, escrowId))
                  /\ sender # owner) =>
                  /\ lastCall'.result = "only owner"
                  /\ UNCHANGED <<escrows, balances, allowance, paid, owner, token>>
       /\ \A i \in EscrowIds :
              (Settles(i, "Released") \/ Settles(i, "Refunded")) =>
                  /\ lastCall'.caller = owner
                  /\ lastCall'.op = IF escrows'[i].status = "Released"
                                    THEN "releasePayment" ELSE "returnFunds"
                  /\ lastCall'.result = "ok"]_vars

\* after the ownership went to the freelancer, the client called releasePayment
\* on the Deposited escrow, which the contract could pay, and was refused
C36_FormerOwnerRefused ==
    /\ escrows # <<>> /\ escrows[0].status = "Deposited"
    /\ CanTransfer(escrows[0].amount)
    /\ owner = "bob"
    /\ lastCall = [op |-> "releasePayment", caller |-> escrows[0].client, escrowId |-> 0,
                   result |-> "only owner"]

(* Escrows are independent. *)
\* C37: escrows are independent.  A step changes the record of an escrow only
\* if it is a successful depositFunds, releasePayment or returnFunds called on
\* the id of that escrow, so a call on one id leaves every other record
\* unchanged; a new record appears only through a successful createEscrow,
\* under the value of escrowCounter, an id no escrow had, and leaves the
\* existing records as they were; and in every step every existing escrow
\* keeps its client, its freelancer and its amount.
C37_EscrowsIndependent ==
    [][/\ \A j \in DOMAIN escrows :
              /\ j \in DOMAIN escrows'
              /\ escrows'[j].client = escrows[j].client
              /\ escrows'[j].freelancer = escrows[j].freelancer
              /\ escrows'[j].amount = escrows[j].amount
              /\ escrows'[j].exists
              /\ escrows'[j] # escrows[j] =>
                     /\ lastCall'.op \in {"depositFunds", "releasePayment", "returnFunds"}
                     /\ lastCall'.escrowId = j
                     /\ lastCall'.result = "ok"
       /\ DOMAIN escrows' # DOMAIN escrows =>
              /\ lastCall'.op = "createEscrow" /\ lastCall'.result = "ok"
              /\ lastCall'.escrowId = escrowCounter
              /\ escrowCounter \notin DOMAIN escrows
              /\ DOMAIN escrows' = DOMAIN escrows \cup {escrowCounter}
              /\ escrows'[escrowCounter].client = lastCall'.caller
              /\ escrows'[escrowCounter].status = "None"
              /\ escrowCounter' = escrowCounter + 1
       /\ (lastCall'.op = "createEscrow" /\ lastCall'.result = "ok" /\ lastCall' # lastCall) =>
              DOMAIN escrows' # DOMAIN escrows]_vars

\* two escrows of different clients and amounts: the second was created after
\* the first was funded, and was settled while the first is still Deposited
C37_SecondSettledFirstHeld ==
    /\ escrowCounter = 2
    /\ escrows[0].status = "Deposited"
    /\ escrows[1].status = "Refunded"
    /\ escrows[0].client # escrows[1].client
    /\ escrows[0].amount # escrows[1].amount
    /\ lastCall = [op |-> "returnFunds", caller |-> owner, escrowId |-> 1, result |-> "ok"]

(* The page with deposited funds. *)
\* the page shows deposited funds that were neither released nor returned
UiFunded ==
    ui.aiAgentStatus \in {"AWAITING_SUBMISSION", "ANALYZING", "VERIFIED", "REJECTED", "ERROR"}

\* a handler is between two of its awaits: its continuation will run
UiBusy == ui.job.op # "none"

\* the submit button can be pressed, or will be once a file is chosen and a
\* description typed
CanSubmit ==
    \/ ENABLED submitForVerification
    \/ /\ ui.currentStep = 3 /\ ~ui.loading /\ ui.aiAgentStatus = "AWAITING_SUBMISSION"
       /\ ENABLED handleFileUpload
       /\ ENABLED SetTaskDescription(TRUE)

\* C38: in every reachable state of the page with deposited funds the workflow
\* can go on towards RELEASED or RETURNED: a handler is running and will end,
\* or the submit, the release or the return button can be pressed (for submit,
\* after choosing a file and typing a description).  This holds also in the
\* state a backend response with a status other than VERIFIED and REJECTED
\* leaves.
C38_FundedPageCanProceed ==
    UiFunded =>
        \/ UiBusy
        \/ CanSubmit
        \/ ENABLED handleReleasePayment
        \/ ENABLED handleReturnFunds

\* C39: the balance the page shows is positive exactly while the escrow is
\* funded and unsettled: escrowBalance is 0 whenever the status is PENDING,
\* RELEASED or RETURNED, and whenever the status is AWAITING_SUBMISSION,
\* ANALYZING, VERIFIED, REJECTED or ERROR it is the amount that was deposited
\* and is greater than 0.
C39_BalancePositiveWhileFunded ==
    /\ ui.aiAgentStatus \in {"PENDING", "RELEASED", "RETURNED"} =>
           ui.escrowBalance = Number(0)
    /\ UiFunded =>
           /\ ui.escrowBalance = ui.deposited
           /\ GtZero(ui.escrowBalance)

====
